---- MODULE Spec2Model ----
(***************************************************************************)
(* Model of one load campaign of the chasqui client: the /load handler,    *)
(* clientProcessLoadRequest (the coordinator), clientEmitRequests (the     *)
(* emitter), clientWorker (the workers) and clientCollectResponses (the    *)
(* collector), with Go's channel semantics: a send on a buffered channel   *)
(* blocks while the buffer is full, a receive blocks while it is empty and *)
(* open, a send on an unbuffered channel is a rendezvous with the receive, *)
(* a send on (or close of) a closed channel panics, and a select with      *)
(* several ready cases takes any of them.                                  *)
(***************************************************************************)
EXTENDS Integers, Sequences, FiniteSets, TLC

\* ---------------------------------------------------------------- bounds
\* number of items the emitter may place on the request channel
MaxEmit == 2
\* last value of the clock
MaxTime == 2

\* ------------------------------------------------------------- constants
\* runtime.NumCPU() of the machine the client runs on
NCPU == 1
\* init.go: MB ByteSize = 1 << 20
MB == 1048576

\* values of LoadRequest.Concurrency the driver sends
ConcurrencyInputs == {0, 1}
\* values of LoadRequest.Duration, in clock ticks
Durations == {-1, 0, 1}
\* methods of the requests sent to /load
LoadMethods == {"POST", "GET"}
\* bodies of the requests sent to /load: nothing, bytes that are not the JSON
\* of a LoadRequest, and the JSON of req
LoadBodies == {"empty", "garbage", "json"}
\* number of server addresses in LoadRequest.ServerAddrs
ServerCounts == {0, 1, 2}
\* values of LoadRequest.MeanSize; LoadRequest.StdSize is 0, so that every
\* sample MeanSize + StdSize * Z is MeanSize
MeanSizes == {2 * MB}

\* the longest duration among the inputs
MaxDuration == CHOOSE d \in Durations : \A e \in Durations : e <= d

\* uint64(req.MeanSize) + uint64(rand.NormFloat64()*float64(req.StdSize))
SizeSamples(r) == IF r.StdSize = 0 THEN {r.MeanSize} ELSE {}

minInt(a, b) == IF a < b THEN a ELSE b

\* a pool as large as the request asks
NumWorkersOfUncapped(c) == IF c <= 0 THEN 2 * NCPU ELSE c

\* pool size derived from the request
NumWorkersOf(c) ==
    LET n == IF c <= 0 THEN 2 * NCPU ELSE c
    IN  minInt(n, 1000 * NCPU)

\* the largest pool the inputs produce
MaxWorkers == 2 * NCPU

Workers == 1..MaxWorkers
SeqNumbers == 1..(MaxEmit + 1)

NoReq == [seqNumber |-> 0, server |-> 0, size |-> 0, notAfter |-> 0]
NoResp == [seqNumber |-> 0, size |-> 0, err |-> FALSE]
NoLoadResponse ==
    [Start |-> 0, End |-> 0, Concurrency |-> 0, NumFiles |-> 0,
     DataSize |-> 0, ErrCount |-> 0]

VARIABLES
    req,              \* the LoadRequest of the campaign
    configOK,         \* whether fileserver.NewClient succeeds with the client's config
    now,              \* the wall clock
    panicked,         \* a goroutine sent on, or closed, a closed channel
    \* ---- /load handler and clientProcessLoadRequest
    cpc,              \* position of the coordinator
    httpStatus,       \* status the /load handler answered (0: not yet)
    httpBody,         \* the LoadResponse the /load handler wrote
    numWorkers,       \* pool size
    wg,               \* sync.WaitGroup counter
    fsclients,        \* number of transports constructed
    released,         \* number of transports whose idle connections were closed
    finalResp,        \* value received from the summary channel
    summaryClosed,
    \* ---- channels
    requests, requestsClosed,
    responses, responsesClosed,
    \* ---- clientEmitRequests
    epc, seqNumber, timerAt, notAfter, newreq,
    \* ---- clientWorker
    wpc, cur, wresp,
    \* ---- clientCollectResponses
    kpc, start, fileCount, errCount, totalSize, summary,
    \* ---- history of the campaign (not program state)
    recvCount,        \* seqNumber -> number of times a worker received the item
    dropped,          \* seqNumbers a worker dropped for being past the deadline
    respCount,        \* seqNumber -> number of DownloadResp sent for it
    errSent,          \* number of DownloadResp sent that carried an error
    collCount,        \* seqNumber -> number of times the collector counted it
    lateDone,         \* a download returned after the deadline had passed
    afterFire,        \* an item was placed on the channel after the timer fired
    closeCount,       \* number of close(requests) executed
    summarySends,     \* number of sends completed on the summary channel
    times             \* seqNumber -> start and end of its download, in campaigns
                      \* whose downloads are timed (<<>> in the others)

hvars == <<recvCount, dropped, respCount, errSent, collCount, lateDone, afterFire, closeCount,
           summarySends, times>>
cvars == <<cpc, httpStatus, httpBody, numWorkers, wg, fsclients, released, finalResp,
           summaryClosed>>
chvars == <<requests, requestsClosed, responses, responsesClosed>>
evars == <<epc, seqNumber, timerAt, notAfter, newreq>>
wvars == <<wpc, cur, wresp>>
kvars == <<kpc, start, fileCount, errCount, totalSize, summary>>
envvars == <<req, configOK, now, panicked>>

\* ---- one exchange with the file server: a DownloadFile call of the client,
\* the GET /file request it issues, and the response of the handler
VARIABLES
    scenario,         \* what the exchange exercises ("none": no exchange)
    fpc,              \* position of the exchange
    sizeArg,          \* the argument of a parseSize call, as a sequence of characters
    parsed,           \* the result of parseSize
    call,             \* the arguments of the DownloadFile call
    hreq,             \* the HTTP request the server receives
    issued,           \* whether DownloadFile issued an HTTP request
    rw,               \* the http.ResponseWriter: the response as the handler built it
    srv,              \* the locals of handleGetFile and serveFile
    report            \* the DownloadReport

fvars == <<scenario, fpc, sizeArg, parsed, call, hreq, issued, rw, srv, report>>

\* ---- the HTTP request the /load handler of the client receives
VARIABLES
    loadMethod,       \* its method
    loadBody          \* its body: "empty", "garbage" or "json" (it decodes to req)

lvars == <<loadMethod, loadBody>>

\* ---- the driver: driverRun, one driverSendLoadRequest per client address,
\* driverCollectLoadReports and printSummary
VARIABLES
    dpc,              \* position of driverRun ("idle": no driver modelled)
    clientsArg,       \* the -clients argument, as a sequence of characters
    serversArg,       \* the -servers argument, as a sequence of characters
    clientAddrs,      \* splitAndClean(config.clients)
    serverAddrs,      \* LoadRequest.ServerAddrs: splitAndClean(config.servers)
    tpc,              \* position of each driverSendLoadRequest
    rep,              \* the LoadReport of each driverSendLoadRequest
    reportsClosed,    \* close(reports) was executed
    collected,        \* the collector's loop counter i
    results,          \* the collector's map, as the set of its values
    printed,          \* what printSummary printed
    sendGroup,        \* counter of sendGroup
    collectGroup,     \* counter of collectGroup
    sentCount,        \* history: sends each task completed on the reports channel
    dpanic            \* a goroutine of the driver panicked: the process ended

dvars == <<dpc, clientsArg, serversArg, clientAddrs, serverAddrs, tpc, rep, reportsClosed,
           collected, results, printed, sendGroup, collectGroup, sentCount, dpanic>>

\* ---- the file server serving several GET /file requests at the same time,
\* one serveFile call per request
VARIABLES
    handlers,         \* the arguments, locals and ResponseWriter of each serveFile call
    readers           \* the position of each bytes.Reader, by reader

svars == <<handlers, readers>>

\* ---- the client process running several campaigns at the same time, one
\* clientProcessLoadRequest call per /load request; channels and transports
\* are objects of the heap, known by their position in it
VARIABLES
    camps,            \* the arguments and locals of each clientProcessLoadRequest call
    chans,            \* the channels made so far
    clients           \* the fileserver.Client objects made so far

ivars == <<camps, chans, clients>>
vars == <<envvars, cvars, chvars, evars, wvars, kvars, hvars, fvars, lvars, dvars, svars,
          ivars>>

\* ---- values of the exchange variables before anything has happened
\* a 64-bit integer is a sequence of seven digits in base 1024, the least
\* significant first; the last digit holds bits 60 to 63
Zero64 == <<0, 0, 0, 0, 0, 0, 0>>
\* the empty string, where a hexadecimal digest is expected
EmptyDigest == [alg |-> "", data |-> <<>>, case |-> "lower"]
\* the zero value of DownloadReport.Checksum
NoChecksum == [algorithm |-> "", hex |-> EmptyDigest, colon |-> FALSE]
NoParse == [err |-> "", value |-> Zero64]
NoCall == [size |-> 0, chkMode |-> "ChecksumNone", chkAlgo |-> 0, cert |-> FALSE]
NoHReq ==
    [method |-> "", path |-> "", badQuery |-> FALSE, id |-> <<>>, size |-> <<>>,
     checksum |-> <<>>, tls |-> ""]
\* a ResponseWriter nothing has been written to
NoRW ==
    [wroteHeader |-> FALSE, status |-> 0, declared |-> {}, chkAlg |-> "",
     body |-> <<>>, errBody |-> FALSE, clen |-> <<>>, cval |-> EmptyDigest]
NoSrv ==
    [size |-> 0, alg |-> "", remain |-> 0, pos |-> 0, hashed |-> <<>>,
     writeErr |-> FALSE, code |-> 0, panic |-> FALSE]
NoReport == [Err |-> "", Checksum |-> NoChecksum]

\* no exchange with a file server takes place
NoExchange ==
    /\ scenario = "none"
    /\ fpc = "idle"
    /\ sizeArg = <<>>
    /\ parsed = NoParse
    /\ call = NoCall
    /\ hreq = NoHReq
    /\ issued = FALSE
    /\ rw = NoRW
    /\ srv = NoSrv
    /\ report = NoReport

\* what printSummary has printed: nothing yet
NoSummary ==
    [done |-> FALSE, start |-> 0, end |-> 0, dataSize |-> 0, numFiles |-> 0,
     numErrors |-> 0, errorRow |-> FALSE]

\* the downloads of the campaign are not timed
Untimed == times = <<>>

\* the client runs no concurrent campaigns
NoCampaigns ==
    /\ camps = <<>>
    /\ chans = <<>>
    /\ clients = <<>>

\* the file server serves no concurrent requests
NoServing ==
    /\ handlers = <<>>
    /\ readers = <<>>

\* no driver runs
NoDriver ==
    /\ dpc = "idle"
    /\ clientsArg = <<>>
    /\ serversArg = <<>>
    /\ clientAddrs = <<>>
    /\ serverAddrs = <<>>
    /\ tpc = <<>>
    /\ rep = <<>>
    /\ reportsClosed = FALSE
    /\ collected = 0
    /\ results = {}
    /\ printed = NoSummary
    /\ sendGroup = 0
    /\ collectGroup = 0
    /\ sentCount = <<>>
    /\ dpanic = FALSE

\* the state of the client when a request arrives at /load
ClientInit ==
    /\ now = 0
    /\ panicked = FALSE
    /\ cpc = "process"
    /\ httpStatus = 0
    /\ httpBody = NoLoadResponse
    /\ numWorkers = 0
    /\ wg = 0
    /\ fsclients = 0
    /\ released = 0
    /\ finalResp = NoLoadResponse
    /\ summaryClosed = FALSE
    /\ requests = <<>>
    /\ requestsClosed = FALSE
    /\ responses = <<>>
    /\ responsesClosed = FALSE
    /\ epc = "idle"
    /\ seqNumber = 0
    /\ timerAt = -1
    /\ notAfter = -1
    /\ newreq = NoReq
    /\ wpc = [w \in Workers |-> "idle"]
    /\ cur = [w \in Workers |-> NoReq]
    /\ wresp = [w \in Workers |-> NoResp]
    /\ kpc = "idle"
    /\ start = 0
    /\ fileCount = 0
    /\ errCount = 0
    /\ totalSize = 0
    /\ summary = NoLoadResponse
    /\ recvCount = [s \in SeqNumbers |-> 0]
    /\ dropped = {}
    /\ respCount = [s \in SeqNumbers |-> 0]
    /\ errSent = 0
    /\ collCount = [s \in SeqNumbers |-> 0]
    /\ lateDone = FALSE
    /\ afterFire = FALSE
    /\ closeCount = 0
    /\ summarySends = 0

\* the state of the client before a campaign
CampaignInit ==
    /\ req \in [ServerAddrs : ServerCounts, Duration : Durations,
                Concurrency : ConcurrencyInputs, MeanSize : MeanSizes,
                StdSize : {0}]
    /\ configOK \in BOOLEAN
    /\ loadMethod \in LoadMethods
    /\ loadBody \in LoadBodies
    /\ ClientInit

\* a campaign, and no exchange modelled beside it
Init == CampaignInit /\ NoExchange /\ NoDriver /\ NoServing /\ Untimed /\ NoCampaigns

\* ------------------------------------------------------------- the clock
\* the clock advances up to MaxTime; until the emitter has read it, it stops
\* early enough for the deadline to be passed before MaxTime
Tick ==
    /\ ~panicked
    /\ now < MaxTime
    /\ notAfter < 0 => now + MaxDuration + 2 <= MaxTime
    /\ now' = now + 1
    /\ UNCHANGED <<dvars, lvars, ivars, svars, fvars, req, configOK, panicked, cvars, chvars, evars, wvars, kvars, hvars>>

\* the channel of time.After(req.Duration) holds a value once the duration
\* has elapsed
TimerFired == timerAt >= 0 /\ now >= timerAt

\* ------------------------------- /load handler, clientProcessLoadRequest
\* a clientProcessLoadRequest that reports the campaign's download errors as
\* its own error
ProcessErrorOnFailure(resp) == resp.ErrCount > 0

\* the error clientProcessLoadRequest returns once the campaign has run: nil
ProcessError(resp) == FALSE

\* a handler that answers 200 whatever clientProcessLoadRequest returned
HandlerStatusAlwaysOK(err) == 200

\* the status clientLoadRequestHandler answers for the outcome of the campaign
HandlerStatus(err) == IF err THEN 500 ELSE 200

\* a validation that accepts a negative duration
clientVerifyLoadRequestAnyDuration(r) == r.ServerAddrs = 0

\* clientVerifyLoadRequest returns an error: no server address, or a negative
\* duration
clientVerifyLoadRequest(r) == r.ServerAddrs = 0 \/ r.Duration < 0

\* the status clientLoadRequestHandler answers before it processes the
\* request, 0 when it goes on to clientProcessLoadRequest: the method, the
\* decoding of the body (an empty body is no JSON value), the validation
RejectStatus(method, body, r) ==
    IF method # "POST" THEN 405
    ELSE IF body # "json" THEN 400
    ELSE IF clientVerifyLoadRequest(r) THEN 400
    ELSE 0

\* clientLoadRequestHandler up to wg.Wait() in clientProcessLoadRequest: the
\* checks of the request, then pool size, channels, one fileserver.Client
\* per entry of ServerAddrs (a failing NewClient makes the handler answer
\* 500 with nothing started), then go clientCollectResponses, wg.Add(1) and
\* go clientWorker for each worker, go clientEmitRequests
ProcessStart ==
    /\ ~panicked
    /\ cpc = "process"
    /\ IF RejectStatus(loadMethod, loadBody, req) # 0
         THEN /\ cpc' = "returned"
              /\ httpStatus' = RejectStatus(loadMethod, loadBody, req)
              /\ UNCHANGED <<numWorkers, fsclients, kpc, wg, wpc, epc>>
         ELSE /\ numWorkers' = NumWorkersOf(req.Concurrency)
              /\ IF configOK
                 THEN /\ fsclients' = req.ServerAddrs
                      /\ kpc' = "start"
                      /\ wg' = NumWorkersOf(req.Concurrency)
                      /\ wpc' = [w \in Workers |->
                                   IF w <= NumWorkersOf(req.Concurrency) THEN "recv" ELSE "idle"]
                      /\ epc' = "start"
                      /\ cpc' = "wait"
                      /\ UNCHANGED httpStatus
                 ELSE /\ cpc' = "returned"
                      /\ httpStatus' = HandlerStatus(TRUE)
                      /\ UNCHANGED <<fsclients, kpc, wg, wpc, epc>>
    /\ UNCHANGED <<dvars, lvars, ivars, svars, fvars, envvars, httpBody, released, finalResp, summaryClosed, chvars,
                   seqNumber, timerAt, notAfter, newreq, cur, wresp, start,
                   fileCount, errCount, totalSize, summary, hvars>>

\* a coordinator that does not wait for the workers before going on
WgWaitNoWait ==
    /\ ~panicked
    /\ cpc = "wait"
    /\ cpc' = "closeResponses"
    /\ UNCHANGED <<dvars, lvars, ivars, svars, fvars, envvars, httpStatus, httpBody, numWorkers, wg, fsclients,
                   released, finalResp, summaryClosed, chvars, evars, wvars,
                   kvars, hvars>>

\* wg.Wait() returns when the counter is zero
WgWait ==
    /\ ~panicked
    /\ cpc = "wait"
    /\ wg = 0
    /\ cpc' = "closeResponses"
    /\ UNCHANGED <<dvars, lvars, ivars, svars, fvars, envvars, httpStatus, httpBody, numWorkers, wg, fsclients, released,
                   finalResp, summaryClosed, chvars, evars, wvars, kvars, hvars>>

\* close(responses)
CloseResponses ==
    /\ ~panicked
    /\ cpc = "closeResponses"
    /\ IF responsesClosed
         THEN panicked' = TRUE /\ UNCHANGED responsesClosed
         ELSE responsesClosed' = TRUE /\ UNCHANGED panicked
    /\ cpc' = "closeIdle"
    /\ UNCHANGED <<dvars, lvars, ivars, svars, fvars, req, configOK, now, httpStatus, httpBody, numWorkers, wg, fsclients,
                   released, finalResp, summaryClosed, requests,
                   requestsClosed, responses, evars, wvars, kvars, hvars>>

\* a coordinator that forgets to release the transports
CloseIdleConnectionsSkip ==
    /\ ~panicked
    /\ cpc = "closeIdle"
    /\ cpc' = "recvSummary"
    /\ UNCHANGED <<dvars, lvars, ivars, svars, fvars, envvars, httpStatus, httpBody, numWorkers, wg, fsclients,
                   released, finalResp, summaryClosed, chvars, evars, wvars,
                   kvars, hvars>>

\* for i := range fsclients { fsclients[i].CloseIdleConnections() }
CloseIdleConnections ==
    /\ ~panicked
    /\ cpc = "closeIdle"
    /\ released' = fsclients
    /\ cpc' = "recvSummary"
    /\ UNCHANGED <<dvars, lvars, ivars, svars, fvars, envvars, httpStatus, httpBody, numWorkers, wg, fsclients, finalResp,
                   summaryClosed, chvars, evars, wvars, kvars, hvars>>

\* a coordinator that loses the value it receives from the summary channel
RecvSummaryStale ==
    /\ ~panicked
    /\ cpc = "recvSummary"
    /\ kpc = "send"
    /\ ~summaryClosed
    /\ finalResp' = NoLoadResponse
    /\ summarySends' = summarySends + 1
    /\ kpc' = "done"
    /\ cpc' = "closeSummary"
    /\ UNCHANGED <<dvars, lvars, ivars, svars, fvars, envvars, httpStatus, httpBody, numWorkers, wg, fsclients,
                   released, summaryClosed, chvars, evars, wvars, start,
                   fileCount, errCount, totalSize, summary, recvCount,
                   dropped, respCount, errSent, collCount, lateDone,
                   afterFire, closeCount, times>>

\* finalResp := <-summary, the rendezvous with the collector's send
\* summary <- &LoadResponse{...} on the unbuffered summary channel
RecvSummary ==
    /\ ~panicked
    /\ cpc = "recvSummary"
    /\ kpc = "send"
    /\ ~summaryClosed
    /\ finalResp' = summary
    /\ summarySends' = summarySends + 1
    /\ kpc' = "done"
    /\ cpc' = "closeSummary"
    /\ UNCHANGED <<dvars, lvars, ivars, svars, fvars, envvars, httpStatus, httpBody, numWorkers, wg, fsclients, released,
                   summaryClosed, chvars, evars, wvars, start, fileCount,
                   errCount, totalSize, summary, recvCount, dropped, respCount,
                   errSent, collCount, lateDone, afterFire, closeCount, times>>

\* close(summary); return finalResp, nil; the handler encodes and answers
ProcessReturn ==
    /\ ~panicked
    /\ cpc = "closeSummary"
    /\ summaryClosed' = TRUE
    /\ httpStatus' = HandlerStatus(ProcessError(finalResp))
    /\ httpBody' = IF ProcessError(finalResp) THEN NoLoadResponse ELSE finalResp
    /\ cpc' = "returned"
    /\ UNCHANGED <<dvars, lvars, ivars, svars, fvars, envvars, numWorkers, wg, fsclients, released, finalResp,
                   chvars, evars, wvars, kvars, hvars>>

\* --------------------------------------------------- clientEmitRequests
\* the DownloadReq built at the top of the loop for sequence number n, its
\* server drawn by rand.Intn(numServers), its size sampled, with the
\* campaign's deadline
NewReqsSameNumber(n, deadline) ==
    {[seqNumber |-> 1, server |-> s, size |-> z, notAfter |-> deadline] :
        s \in 1..req.ServerAddrs, z \in SizeSamples(req)}
NewReqs(n, deadline) ==
    {[seqNumber |-> n, server |-> s, size |-> z, notAfter |-> deadline] :
        s \in 1..req.ServerAddrs, z \in SizeSamples(req)}

\* timeout := time.After(req.Duration); seqNumber := 0;
\* notAfter := time.Now().Add(req.Duration); first pass to the select
EmitStart ==
    /\ ~panicked
    /\ epc = "start"
    /\ timerAt' = now + req.Duration
    /\ notAfter' = now + req.Duration
    /\ seqNumber' = 1
    /\ newreq' \in NewReqs(1, now + req.Duration)
    /\ epc' = "select"
    /\ UNCHANGED <<dvars, lvars, ivars, svars, fvars, envvars, cvars, chvars, wvars, kvars, hvars>>

\* an emitter whose channel takes every item at once, whatever it holds
EmitSendUnbounded ==
    /\ ~panicked
    /\ epc = "select"
    /\ newreq.seqNumber <= MaxEmit
    /\ IF requestsClosed
         THEN panicked' = TRUE /\ UNCHANGED requests
         ELSE requests' = Append(requests, newreq) /\ UNCHANGED panicked
    /\ afterFire' = (afterFire \/ TimerFired)
    /\ seqNumber' = seqNumber + 1
    /\ newreq' \in NewReqs(seqNumber + 1, notAfter)
    /\ UNCHANGED <<dvars, lvars, ivars, svars, fvars, req, configOK, now, cvars, requestsClosed, responses,
                   responsesClosed, epc, timerAt, notAfter, wvars, kvars,
                   recvCount, dropped, respCount, errSent, collCount, lateDone,
                   closeCount, summarySends, times>>

\* select case requests <- newreq: the channel has room; then the next pass
\* of the loop builds the next request and comes back to the select
EmitSend ==
    /\ ~panicked
    /\ epc = "select"
    /\ newreq.seqNumber <= MaxEmit
    /\ Len(requests) < numWorkers
    /\ IF requestsClosed
         THEN panicked' = TRUE /\ UNCHANGED requests
         ELSE requests' = Append(requests, newreq) /\ UNCHANGED panicked
    /\ afterFire' = (afterFire \/ TimerFired)
    /\ seqNumber' = seqNumber + 1
    /\ newreq' \in NewReqs(seqNumber + 1, notAfter)
    /\ UNCHANGED <<dvars, lvars, ivars, svars, fvars, req, configOK, now, cvars, requestsClosed, responses,
                   responsesClosed, epc, timerAt, notAfter, wvars, kvars,
                   recvCount, dropped, respCount, errSent, collCount, lateDone,
                   closeCount, summarySends, times>>

\* an emitter whose select takes the timeout case before the timer has fired
EmitTimeoutEarly ==
    /\ ~panicked
    /\ epc = "select"
    /\ IF requestsClosed
         THEN panicked' = TRUE /\ UNCHANGED requestsClosed
         ELSE requestsClosed' = TRUE /\ UNCHANGED panicked
    /\ closeCount' = closeCount + 1
    /\ epc' = "done"
    /\ UNCHANGED <<dvars, lvars, ivars, svars, fvars, req, configOK, now, cvars, requests, responses,
                   responsesClosed, seqNumber, timerAt, notAfter, newreq,
                   wvars, kvars, recvCount, dropped, respCount, errSent,
                   collCount, lateDone, afterFire, summarySends, times>>

\* an emitter that leaves its loop on the timeout without closing the channel
EmitTimeoutNoClose ==
    /\ ~panicked
    /\ epc = "select"
    /\ TimerFired
    /\ epc' = "done"
    /\ UNCHANGED <<dvars, lvars, ivars, svars, fvars, envvars, cvars, chvars, seqNumber, timerAt, notAfter,
                   newreq, wvars, kvars, hvars>>

\* select case <-timeout: break loop; close(requests)
EmitTimeout ==
    /\ ~panicked
    /\ epc = "select"
    /\ TimerFired
    /\ IF requestsClosed
         THEN panicked' = TRUE /\ UNCHANGED requestsClosed
         ELSE requestsClosed' = TRUE /\ UNCHANGED panicked
    /\ closeCount' = closeCount + 1
    /\ epc' = "done"
    /\ UNCHANGED <<dvars, lvars, ivars, svars, fvars, req, configOK, now, cvars, requests, responses,
                   responsesClosed, seqNumber, timerAt, notAfter, newreq,
                   wvars, kvars, recvCount, dropped, respCount, errSent, collCount,
                   lateDone, afterFire, summarySends, times>>

\* the times of a download that has neither started nor ended: the zero
\* time.Time, before every instant of the clock
NoSpan == [start |-> -1, end |-> -1]
\* processDownloadRequest is called at instant at: DownloadFile will take
\* report.Start := time.Now() at or after it
DownloadCalled(t, n, at) ==
    IF t = <<>> THEN t ELSE [t EXCEPT ![n] = [start |-> at, end |-> -1]]
\* DownloadFile returns at instant at: report.Start was taken between the
\* call and now; report.End := time.Now() is taken once the body was read,
\* and stays the zero time when the call fails before
DownloadReturned(t, n, e, at) ==
    IF t = <<>> THEN {t}
    ELSE {[t EXCEPT ![n] = [start |-> s, end |-> d]] :
             s \in t[n].start..at, d \in IF e THEN {-1, at} ELSE {at}}

\* ---------------------------------------------------------- clientWorker
\* a worker that never finds an item past its deadline
PastDeadlineNever(r) == FALSE

\* time.Now().After(req.notAfter)
PastDeadline(r) == now > r.notAfter

\* for req := range reqChan: a worker takes the item at the head of the
\* channel; past its deadline the item is dropped (continue), otherwise the
\* worker calls processDownloadRequest(req)
WorkerRecv(w) ==
    /\ ~panicked
    /\ wpc[w] = "recv"
    /\ Len(requests) > 0
    /\ requests' = Tail(requests)
    /\ recvCount' = [recvCount EXCEPT ![Head(requests).seqNumber] = @ + 1]
    /\ IF PastDeadline(Head(requests))
         THEN /\ dropped' = dropped \cup {Head(requests).seqNumber}
              /\ UNCHANGED <<wpc, cur, times>>
         ELSE /\ cur' = [cur EXCEPT ![w] = Head(requests)]
              /\ wpc' = [wpc EXCEPT ![w] = "download"]
              /\ times' = DownloadCalled(times, Head(requests).seqNumber, now)
              /\ UNCHANGED dropped
    /\ UNCHANGED <<dvars, lvars, ivars, svars, fvars, envvars, cvars, requestsClosed, responses, responsesClosed,
                   evars, wresp, kvars, respCount, errSent, collCount, lateDone,
                   afterFire, closeCount, summarySends>>

\* a worker that leaves as soon as it finds the request channel empty
WorkerExitOnEmpty(w) ==
    /\ ~panicked
    /\ wpc[w] = "recv"
    /\ Len(requests) = 0
    /\ wpc' = [wpc EXCEPT ![w] = "done"]
    /\ wg' = wg - 1
    /\ UNCHANGED <<dvars, lvars, ivars, svars, fvars, envvars, cpc, httpStatus, httpBody, numWorkers, fsclients,
                   released, finalResp, summaryClosed, chvars, evars, cur,
                   wresp, kvars, hvars>>

\* the range loop ends when the channel is closed and drained; defer wg.Done()
WorkerExit(w) ==
    /\ ~panicked
    /\ wpc[w] = "recv"
    /\ Len(requests) = 0
    /\ requestsClosed
    /\ wpc' = [wpc EXCEPT ![w] = "done"]
    /\ wg' = wg - 1
    /\ UNCHANGED <<dvars, lvars, ivars, svars, fvars, envvars, cpc, httpStatus, httpBody, numWorkers, fsclients, released,
                   finalResp, summaryClosed, chvars, evars, cur, wresp, kvars,
                   hvars>>

\* the DownloadResp processDownloadRequest builds from the request and the
\* error of the DownloadReport
DownloadRespOf(r, e) == [seqNumber |-> r.seqNumber, size |-> r.size, err |-> e]

\* a worker whose download is cancelled once the deadline has passed: no
\* DownloadResp is built and the worker goes back to the channel
WorkerDownloadCancel(w) ==
    /\ ~panicked
    /\ wpc[w] = "download"
    /\ IF PastDeadline(cur[w])
         THEN /\ wpc' = [wpc EXCEPT ![w] = "recv"]
              /\ cur' = [cur EXCEPT ![w] = NoReq]
              /\ lateDone' = TRUE
              /\ UNCHANGED wresp
         ELSE /\ \E e \in BOOLEAN :
                    wresp' = [wresp EXCEPT ![w] = DownloadRespOf(cur[w], e)]
              /\ wpc' = [wpc EXCEPT ![w] = "send"]
              /\ UNCHANGED <<cur, lateDone>>
    /\ UNCHANGED <<dvars, lvars, ivars, svars, fvars, envvars, cvars, chvars, evars, kvars, recvCount, dropped,
                   respCount, errSent, collCount, afterFire, closeCount,
                   summarySends, times>>

\* DownloadFile returns, with or without an error, whatever the clock says
WorkerDownload(w) ==
    /\ ~panicked
    /\ wpc[w] = "download"
    /\ \E e \in BOOLEAN :
          /\ wresp' = [wresp EXCEPT ![w] = DownloadRespOf(cur[w], e)]
          /\ times' \in DownloadReturned(times, cur[w].seqNumber, e, now)
    /\ lateDone' = (lateDone \/ PastDeadline(cur[w]))
    /\ wpc' = [wpc EXCEPT ![w] = "send"]
    /\ UNCHANGED <<dvars, lvars, ivars, svars, fvars, envvars, cvars, chvars, evars, cur, kvars, recvCount, dropped,
                   respCount, errSent, collCount, afterFire, closeCount, summarySends>>

\* req.replyTo <- resp: blocks while the channel is full, panics once closed
WorkerSend(w) ==
    /\ ~panicked
    /\ wpc[w] = "send"
    /\ IF responsesClosed
         THEN /\ panicked' = TRUE
              /\ UNCHANGED <<responses, respCount, errSent>>
         ELSE /\ Len(responses) < numWorkers
              /\ responses' = Append(responses, wresp[w])
              /\ respCount' = [respCount EXCEPT ![wresp[w].seqNumber] = @ + 1]
              /\ errSent' = IF wresp[w].err THEN errSent + 1 ELSE errSent
              /\ UNCHANGED panicked
    /\ wpc' = [wpc EXCEPT ![w] = "recv"]
    /\ cur' = [cur EXCEPT ![w] = NoReq]
    /\ wresp' = [wresp EXCEPT ![w] = NoResp]
    /\ UNCHANGED <<dvars, lvars, ivars, svars, fvars, req, configOK, now, cvars, requests, requestsClosed,
                   responsesClosed, evars, kvars, recvCount, dropped, collCount,
                   lateDone, afterFire, closeCount, summarySends, times>>

\* ----------------------------------------------- clientCollectResponses
\* totalSize, fileCount, errCount := 0, 0, 0; start := time.Now()
CollectStart ==
    /\ ~panicked
    /\ kpc = "start"
    /\ start' = now
    /\ fileCount' = 0
    /\ errCount' = 0
    /\ totalSize' = 0
    /\ kpc' = "range"
    /\ UNCHANGED <<dvars, lvars, ivars, svars, fvars, envvars, cvars, chvars, evars, wvars, summary, hvars>>

\* float64(resp.size) / float64(MB); the sizes of the model are whole MB
SizeInMB(size) == size \div MB

\* a collector whose error branch lacks the continue: an error is counted as
\* an error and as a file
CollectRespNoContinue ==
    /\ ~panicked
    /\ kpc = "range"
    /\ Len(responses) > 0
    /\ LET resp == Head(responses) IN
         /\ errCount' = IF resp.err THEN errCount + 1 ELSE errCount
         /\ fileCount' = fileCount + 1
         /\ totalSize' = totalSize + SizeInMB(resp.size)
         /\ collCount' = [collCount EXCEPT ![resp.seqNumber] = @ + 1]
    /\ responses' = Tail(responses)
    /\ UNCHANGED <<dvars, lvars, ivars, svars, fvars, envvars, cvars, requests, requestsClosed, responsesClosed,
                   evars, wvars, kpc, start, summary, recvCount, dropped,
                   respCount, errSent, lateDone, afterFire, closeCount,
                   summarySends, times>>

\* body of the range loop for one DownloadResp
CollectResp ==
    /\ ~panicked
    /\ kpc = "range"
    /\ Len(responses) > 0
    /\ LET resp == Head(responses) IN
         /\ IF resp.err
              THEN /\ errCount' = errCount + 1
                   /\ UNCHANGED <<fileCount, totalSize>>
              ELSE /\ fileCount' = fileCount + 1
                   /\ totalSize' = totalSize + SizeInMB(resp.size)
                   /\ UNCHANGED errCount
         /\ collCount' = [collCount EXCEPT ![resp.seqNumber] = @ + 1]
    /\ responses' = Tail(responses)
    /\ UNCHANGED <<dvars, lvars, ivars, svars, fvars, envvars, cvars, requests, requestsClosed, responsesClosed,
                   evars, wvars, kpc, start, summary, recvCount, dropped,
                   respCount, errSent, lateDone, afterFire, closeCount, summarySends, times>>

\* a collector that stops as soon as it finds the response channel empty
CollectEndEarly ==
    /\ ~panicked
    /\ kpc = "range"
    /\ Len(responses) = 0
    /\ summary' = [Start |-> start, End |-> now, Concurrency |-> numWorkers,
                   NumFiles |-> fileCount, DataSize |-> totalSize,
                   ErrCount |-> errCount]
    /\ kpc' = "send"
    /\ UNCHANGED <<dvars, lvars, ivars, svars, fvars, envvars, cvars, chvars, evars, wvars, start, fileCount,
                   errCount, totalSize, hvars>>

\* a collector that reports as End the instant it took as Start
CollectEndAtStart ==
    /\ ~panicked
    /\ kpc = "range"
    /\ Len(responses) = 0
    /\ responsesClosed
    /\ summary' = [Start |-> start, End |-> start, Concurrency |-> numWorkers,
                   NumFiles |-> fileCount, DataSize |-> totalSize,
                   ErrCount |-> errCount]
    /\ kpc' = "send"
    /\ UNCHANGED <<dvars, lvars, ivars, svars, fvars, envvars, cvars, chvars, evars, wvars, start, fileCount,
                   errCount, totalSize, hvars>>

\* the range loop ends when responses is closed and drained; the LoadResponse
\* is built (End: time.Now()) and the collector blocks in summary <- ...
CollectEnd ==
    /\ ~panicked
    /\ kpc = "range"
    /\ Len(responses) = 0
    /\ responsesClosed
    /\ summary' = [Start |-> start, End |-> now, Concurrency |-> numWorkers,
                   NumFiles |-> fileCount, DataSize |-> totalSize,
                   ErrCount |-> errCount]
    /\ kpc' = "send"
    /\ UNCHANGED <<dvars, lvars, ivars, svars, fvars, envvars, cvars, chvars, evars, wvars, start, fileCount,
                   errCount, totalSize, hvars>>

\* ------------------------------------------------------- specification
Coordinator ==
    \/ ProcessStart
    \/ WgWait
    \/ CloseResponses
    \/ CloseIdleConnections
    \/ RecvSummary
    \/ ProcessReturn

Emitter ==
    \/ EmitStart
    \/ EmitSend
    \/ EmitTimeout

Worker(w) ==
    \/ WorkerRecv(w)
    \/ WorkerExit(w)
    \/ WorkerDownload(w)
    \/ WorkerSend(w)

Collector ==
    \/ CollectStart
    \/ CollectResp
    \/ CollectEnd

Next ==
    \/ Tick
    \/ Coordinator
    \/ Emitter
    \/ \E w \in Workers : Worker(w)
    \/ Collector

Spec == Init /\ [][Next]_vars

\* campaigns against a single server address
OneServerInit ==
    /\ Init
    /\ req.ServerAddrs = 1
    /\ req.Duration >= 0
    /\ loadMethod = "POST"
    /\ loadBody = "json"

\* campaigns against one server in which every runnable goroutine is
\* eventually scheduled, the clock advances, every DownloadFile call returns,
\* and a select whose timeout case stays ready eventually takes it
FairSpec ==
    /\ OneServerInit
    /\ [][Next]_vars
    /\ WF_vars(Tick)
    /\ WF_vars(Coordinator)
    /\ WF_vars(EmitStart)
    /\ WF_vars(EmitTimeout)
    /\ \A w \in Workers : WF_vars(Worker(w))
    /\ WF_vars(Collector)

\* ------------------------------------------------- the size of the pool
\* values of LoadRequest.Concurrency around the limits of the pool size
PoolRequests == {-2, -1, 0, 1, 2, 3, 999, 1000, 1001, 5000}

\* a valid request arrives at /load; the pool may be as large as the code
\* allows, so its workers are counted by the WaitGroup and not told apart
PoolInit ==
    /\ req \in [ServerAddrs : {1}, Duration : {0}, Concurrency : PoolRequests,
                MeanSize : MeanSizes, StdSize : {0}]
    /\ configOK = TRUE
    /\ loadMethod = "POST"
    /\ loadBody = "json"
    /\ ClientInit
    /\ NoExchange
    /\ NoDriver
    /\ NoServing
    /\ Untimed
    /\ NoCampaigns

\* clientProcessLoadRequest up to the loop that starts the workers: pool
\* size, channels, one fileserver.Client per address, go clientCollectResponses
PoolSize ==
    /\ cpc = "process"
    /\ RejectStatus(loadMethod, loadBody, req) = 0
    /\ configOK
    /\ numWorkers' = NumWorkersOf(req.Concurrency)
    /\ fsclients' = req.ServerAddrs
    /\ kpc' = "start"
    /\ cpc' = "startWorkers"
    /\ UNCHANGED <<dvars, lvars, ivars, svars, fvars, envvars, httpStatus, httpBody, wg, released, finalResp,
                   summaryClosed, chvars, evars, wvars, start, fileCount, errCount,
                   totalSize, summary, hvars>>

\* one pass of the loop: wg.Add(1); go clientWorker(i, &wg, requests)
PoolStartWorker ==
    /\ cpc = "startWorkers"
    /\ wg < numWorkers
    /\ wg' = wg + 1
    /\ UNCHANGED <<dvars, lvars, ivars, svars, fvars, envvars, cpc, httpStatus, httpBody, numWorkers, fsclients,
                   released, finalResp, summaryClosed, chvars, evars, wvars, kvars,
                   hvars>>

\* the loop ends after numWorkers passes; go clientEmitRequests; wg.Wait()
PoolStartEmitter ==
    /\ cpc = "startWorkers"
    /\ wg = numWorkers
    /\ epc' = "start"
    /\ cpc' = "wait"
    /\ UNCHANGED <<dvars, lvars, ivars, svars, fvars, envvars, httpStatus, httpBody, numWorkers, wg, fsclients,
                   released, finalResp, summaryClosed, chvars, seqNumber, timerAt,
                   notAfter, newreq, wvars, kvars, hvars>>

\* one of the workers finds the request channel closed and empty: wg.Done()
PoolWorkerExit ==
    /\ cpc = "wait"
    /\ wg > 0
    /\ Len(requests) = 0
    /\ requestsClosed
    /\ wg' = wg - 1
    /\ UNCHANGED <<dvars, lvars, ivars, svars, fvars, envvars, cpc, httpStatus, httpBody, numWorkers, fsclients,
                   released, finalResp, summaryClosed, chvars, evars, wvars, kvars,
                   hvars>>

\* the campaigns in which the timer fires before the emitter has placed a
\* request on the channel
PoolNext ==
    \/ PoolSize
    \/ PoolStartWorker
    \/ PoolStartEmitter
    \/ EmitStart
    \/ EmitTimeout
    \/ PoolWorkerExit
    \/ WgWait
    \/ CloseResponses
    \/ CloseIdleConnections
    \/ CollectStart
    \/ CollectEnd
    \/ RecvSummary
    \/ ProcessReturn

PoolSpec == PoolInit /\ [][PoolNext]_vars

\* ----------------------------------------------------------- properties
RECURSIVE SumTo(_, _)
SumTo(f, n) == IF n = 0 THEN 0 ELSE f[n] + SumTo(f, n - 1)

\* number of items the emitter has placed on the request channel
Emitted == IF seqNumber = 0 THEN 0 ELSE seqNumber - 1
\* number of DownloadResp values the workers have sent
Sent == SumTo(respCount, MaxEmit + 1)
\* every goroutine of the campaign has ended
AllEnded ==
    /\ cpc = "returned"
    /\ epc \in {"idle", "done"}
    /\ kpc \in {"idle", "done"}
    /\ \A w \in Workers : wpc[w] \in {"idle", "done"}

\* C1: the response channel is closed only once every worker has exited, and
\* no worker sends on it after it has been closed (such a send panics)
C1_CloseAfterWorkers ==
    /\ responsesClosed => \A w \in Workers : wpc[w] \in {"idle", "done"}
    /\ ~panicked

\* a campaign in which workers sent responses and the channel was then closed
C1_Witness == responsesClosed /\ Sent >= 2

\* C2: when the collector emits the summary, NumFiles + ErrCount is the number
\* of responses the workers sent, each counted once, and a dropped item is in
\* neither count
C2_SummaryCountsSent ==
    kpc \in {"send", "done"} =>
        /\ summary.NumFiles + summary.ErrCount = Sent
        /\ \A s \in SeqNumbers : collCount[s] = respCount[s] /\ collCount[s] <= 1
        /\ \A s \in dropped : collCount[s] = 0

\* a summary emitted after a response was counted and an item was dropped
C2_Witness == kpc = "send" /\ Sent >= 1 /\ dropped /= {}

\* C3 as stated: once the campaign has returned, every item placed on the
\* request channel was received by one worker and produced one DownloadResp
C3_Original ==
    httpStatus = 200 =>
        \A s \in 1..Emitted : recvCount[s] = 1 /\ respCount[s] = 1

\* C3 amended: every item placed on the request channel is received by exactly
\* one worker, and produces exactly one DownloadResp unless that worker found
\* it past its deadline and dropped it, when it produces none
C3_OneRespUnlessDropped ==
    /\ \A s \in SeqNumbers : recvCount[s] <= 1 /\ respCount[s] <= 1
    /\ \A s \in dropped : respCount[s] = 0
    /\ httpStatus = 200 =>
           \A s \in 1..Emitted :
               /\ recvCount[s] = 1
               /\ respCount[s] = (IF s \in dropped THEN 0 ELSE 1)

\* a finished campaign with one item answered and one item dropped
C3_Witness ==
    /\ httpStatus = 200
    /\ dropped /= {}
    /\ \E s \in 1..Emitted : respCount[s] = 1

\* C4: under fair scheduling every campaign terminates: the request channel
\* is closed exactly once, all goroutines end and the handler has answered
C4_Terminates ==
    <>[](/\ AllEnded
         /\ ~panicked
         /\ httpStatus /= 0
         /\ httpStatus = 200 => closeCount = 1 /\ requestsClosed /\ responsesClosed)

\* a campaign that ran downloads and has terminated, its channel closed once
C4_Witness == AllEnded /\ httpStatus = 200 /\ closeCount = 1 /\ Sent >= 1

\* C5 as stated: once the timer has fired the emitter places no further item
\* on the request channel
C5_Original == ~afterFire

\* C5 amended: the emitter closes the request channel when, and only when, its
\* select takes the timeout case, which it eventually does once the timer has
\* fired; until then the select may still take the send case when the channel
\* has room, and nothing is placed on the channel once it is closed
C5_StopsOnTimeoutCase ==
    /\ [](requestsClosed => TimerFired /\ epc = "done")
    /\ [][requestsClosed => Len(requests') <= Len(requests)]_vars
    /\ (TimerFired ~> requestsClosed)

\* an item was placed on the channel after the timer fired, and the channel
\* was closed afterwards
C5_Witness == afterFire /\ requestsClosed

\* C6 as stated: request channel closed, workers exited, response channel
\* closed, summary emitted, and only then transports released
C6_Original ==
    /\ (\E w \in Workers : wpc[w] = "done") => requestsClosed
    /\ responsesClosed => \A w \in Workers : wpc[w] \in {"idle", "done"}
    /\ kpc \in {"send", "done"} => responsesClosed
    /\ released > 0 => kpc \in {"send", "done"}

\* C6 amended: the emitter closes the request channel, then all workers exit,
\* then the coordinator closes the response channel and then releases the
\* transports; the collector emits its summary after the response channel is
\* closed, and the coordinator receives it only after releasing the transports
C6_ShutdownOrder ==
    /\ (\E w \in Workers : wpc[w] = "done") => requestsClosed
    /\ responsesClosed => \A w \in Workers : wpc[w] \in {"idle", "done"}
    /\ kpc \in {"send", "done"} => responsesClosed
    /\ released > 0 => responsesClosed
    /\ summarySends >= 1 => released = fsclients /\ released = req.ServerAddrs

\* the transports are released while the collector is still counting responses
C6_Witness == released > 0 /\ kpc = "range" /\ Len(responses) >= 1

\* C7: one LoadResponse is sent on the summary channel per campaign, after the
\* response channel is closed, and it is what the /load handler answers
C7_OneSummary ==
    /\ summarySends <= 1
    /\ summarySends = 1 <=> kpc = "done"
    /\ kpc \in {"send", "done"} => responsesClosed
    /\ httpStatus = 200 =>
           /\ summarySends = 1
           /\ summaryClosed
           /\ httpBody = summary
           /\ httpBody.NumFiles = fileCount /\ httpBody.ErrCount = errCount

\* a campaign answered with a summary that counts a file and an error
C7_Witness ==
    httpStatus = 200 /\ httpBody.NumFiles >= 1 /\ httpBody.ErrCount >= 1

\* C8: NumFiles + ErrCount never exceeds the number of items the emitter
\* placed on the request channel
C8_CountsAtMostEmitted ==
    /\ fileCount + errCount <= Emitted
    /\ httpStatus = 200 => httpBody.NumFiles + httpBody.ErrCount <= Emitted

\* a campaign answered with every emitted item counted
C8_Witness ==
    /\ httpStatus = 200
    /\ Emitted >= 2
    /\ httpBody.NumFiles + httpBody.ErrCount = Emitted
    /\ httpBody.ErrCount >= 1

\* number of DownloadResp values on the response channel with (e = TRUE) or
\* without (e = FALSE) an error
InChannel(e) == Cardinality({i \in 1..Len(responses) : responses[i].err = e})

\* C9: a download started before the deadline runs to completion when the
\* deadline passes: the worker keeps the item until its DownloadResp is sent,
\* and every download started is counted in the LoadResponse
C9_InFlightCounted ==
    /\ \A s \in SeqNumbers :
           (recvCount[s] = 1 /\ s \notin dropped) =>
               \/ respCount[s] = 1
               \/ \E w \in Workers :
                      wpc[w] \in {"download", "send"} /\ cur[w].seqNumber = s
    /\ httpStatus = 200 =>
           /\ \A s \in SeqNumbers :
                  (recvCount[s] = 1 /\ s \notin dropped) => collCount[s] = 1
           /\ httpBody.NumFiles + httpBody.ErrCount
                  = Cardinality({s \in SeqNumbers : recvCount[s] = 1} \ dropped)

\* a campaign answered after a download returned past the deadline, with
\* every item counted
C9_Witness ==
    /\ httpStatus = 200
    /\ lateDone
    /\ dropped = {}
    /\ httpBody.NumFiles + httpBody.ErrCount = Emitted

\* C10: a failed download is delivered as a DownloadResp with the error, adds
\* 1 to ErrCount and nothing to NumFiles or DataSize, does not stop its worker
\* (a worker leaves only when the request channel is closed and drained) and
\* does not make /load answer 500
C10_ErrorsOnlyCounted ==
    /\ ~panicked
    /\ errCount + InChannel(TRUE) = errSent
    /\ fileCount + InChannel(FALSE) = Sent - errSent
    /\ totalSize = fileCount * SizeInMB(req.MeanSize)
    /\ (\E w \in Workers : wpc[w] = "done") => requestsClosed /\ requests = <<>>
    /\ errSent > 0 => httpStatus \in {0, 200}
    /\ httpStatus = 200 =>
           /\ httpBody.ErrCount = errSent
           /\ httpBody.NumFiles = Sent - errSent
           /\ httpBody.DataSize = httpBody.NumFiles * SizeInMB(req.MeanSize)

\* a campaign whose only worker delivered an error and a success, and whose
\* /load answer is 200
C10_Witness ==
    /\ httpStatus = 200
    /\ numWorkers = 1
    /\ errSent = 1
    /\ Sent = 2
    /\ httpBody.ErrCount = 1 /\ httpBody.NumFiles = 1

\* -----------------------------------------------------------------
\* The file server (fileserver/server.go) and its client
\* (fileserver/client.go): one GET /file exchange.
\* -----------------------------------------------------------------

\* ------------------------------------------------- 64-bit arithmetic
\* Go's int64 and uint64 values are kept as 64-bit patterns, so that a
\* product wraps around exactly as the compiled code's does.
\* a * m + c, digit by digit from position i
RECURSIVE MulAdd(_, _, _, _)
MulAdd(a, m, c, i) ==
    IF i > Len(a) THEN <<>>
    ELSE LET t == a[i] * m + c
         IN  <<t % 1024>> \o MulAdd(a, m, t \div 1024, i + 1)

\* the low 64 bits
Wrap64(a) == [a EXCEPT ![7] = a[7] % 16]
\* the value is below 2^64
Fits64(a) == a[7] < 16
\* bit 63, the sign of an int64
Negative64(a) == a[7] >= 8

\* -a on 64 bits (two's complement)
Neg64(a) ==
    LET c == [i \in 1..7 |-> IF i = 7 THEN 15 - a[7] ELSE 1023 - a[i]]
    IN  Wrap64(MulAdd(c, 1, 1, 1))

\* sum of a[i] * b[k + 1 - i] for i in 1..n
RECURSIVE Column(_, _, _, _)
Column(a, b, k, n) ==
    IF n = 0 THEN 0 ELSE a[n] * b[k + 1 - n] + Column(a, b, k, n - 1)

RECURSIVE MulFrom(_, _, _, _)
MulFrom(a, b, k, c) ==
    IF k > 7 THEN <<>>
    ELSE LET t == Column(a, b, k, k) + c
         IN  <<t % 1024>> \o MulFrom(a, b, k + 1, t \div 1024)

\* a * b on 64 bits: the product modulo 2^64
Mul64(a, b) == Wrap64(MulFrom(a, b, 1, 0))

\* a < b as unsigned values, comparing from digit i downwards
RECURSIVE LessFrom(_, _, _)
LessFrom(a, b, i) ==
    IF i = 0 THEN FALSE
    ELSE IF a[i] # b[i] THEN a[i] < b[i]
    ELSE LessFrom(a, b, i - 1)

\* a < b as int64 values
Less64(a, b) ==
    IF Negative64(a) # Negative64(b) THEN Negative64(a) ELSE LessFrom(a, b, 7)

\* server.go: KB, MB, GB, TB int64 = 1 << (10 * iota)
One64 == <<1, 0, 0, 0, 0, 0, 0>>
KB == <<0, 1, 0, 0, 0, 0, 0>>
MB64 == <<0, 0, 1, 0, 0, 0, 0>>
GB == <<0, 0, 0, 1, 0, 0, 0>>
TB == <<0, 0, 0, 0, 1, 0, 0>>
\* math.MaxUint64, math.MaxInt64 and the pattern of math.MinInt64 (2^63)
MaxUint64 == <<1023, 1023, 1023, 1023, 1023, 1023, 15>>
MaxInt64 == <<1023, 1023, 1023, 1023, 1023, 1023, 7>>
MinInt64 == <<0, 0, 0, 0, 0, 0, 8>>

\* the digits of a number below 1024^k
RECURSIVE ToBase(_, _)
ToBase(n, k) == IF k = 0 THEN <<>> ELSE <<n % 1024>> \o ToBase(n \div 1024, k - 1)
\* int64(n) of a natural number n below 2^31
IntTo64(n) == ToBase(n, 7)
\* the number a 64-bit pattern below 2^31 stands for
IntOf64(a) == a[1] + 1024 * (a[2] + 1024 * (a[3] + 1024 * a[4]))

\* ---------------------------------------------------------- strconv
Digits == <<"0", "1", "2", "3", "4", "5", "6", "7", "8", "9">>
IsDigit(c) == \E i \in 1..10 : Digits[i] = c
DigitVal(c) == (CHOOSE i \in 1..10 : Digits[i] = c) - 1

\* the loop of strconv.ParseUint(s, 10, 64) from character i on, n being the
\* value of the characters before i
RECURSIVE ParseDigits(_, _, _)
ParseDigits(s, i, n) ==
    IF i > Len(s) THEN [err |-> "", value |-> n]
    ELSE IF ~IsDigit(s[i]) THEN [err |-> "syntax", value |-> Zero64]
    ELSE LET n1 == MulAdd(n, 10, DigitVal(s[i]), 1)
         IN  IF ~Fits64(n1) THEN [err |-> "range", value |-> MaxUint64]
             ELSE ParseDigits(s, i + 1, n1)

\* strconv.ParseUint(s, 10, 64)
ParseUint(s) ==
    IF Len(s) = 0 THEN [err |-> "syntax", value |-> Zero64]
    ELSE ParseDigits(s, 1, Zero64)

\* strconv.ParseInt(s, 10, 64)
ParseInt(s) ==
    IF Len(s) = 0 THEN [err |-> "syntax", value |-> Zero64]
    ELSE LET neg == s[1] = "-"
             rest == IF s[1] \in {"+", "-"} THEN Tail(s) ELSE s
             un == ParseUint(rest)
         IN  IF un.err = "syntax" THEN [err |-> "syntax", value |-> Zero64]
             ELSE IF ~neg /\ ~LessFrom(un.value, MinInt64, 7)
                  THEN [err |-> "range", value |-> MaxInt64]
             ELSE IF neg /\ LessFrom(MinInt64, un.value, 7)
                  THEN [err |-> "range", value |-> MinInt64]
             ELSE [err |-> "", value |-> IF neg THEN Neg64(un.value) ELSE un.value]

\* the decimal digits of a natural number
RECURSIVE FormatUint(_)
FormatUint(n) ==
    IF n < 10 THEN <<Digits[n + 1]>>
    ELSE FormatUint(n \div 10) \o <<Digits[(n % 10) + 1]>>
\* strconv.FormatInt(n, 10), and fmt.Sprintf("%d", n)
FormatInt(n) == IF n < 0 THEN <<"-">> \o FormatUint(0 - n) ELSE FormatUint(n)

\* --------------------------------------------------------- parseSize
\* parseSize(sz): the size in bytes a string with an optional K, M or G
\* suffix stands for
parseSize(sz) ==
    IF Len(sz) = 0 THEN [err |-> "empty", value |-> Zero64]
    ELSE LET last == sz[Len(sz)]
             factor == CASE last = "K" -> KB
                         [] last = "M" -> MB64
                         [] last = "G" -> GB
                         [] OTHER -> One64
             num == IF last \in {"K", "M", "G"} THEN SubSeq(sz, 1, Len(sz) - 1) ELSE sz
             p == ParseInt(num)
             res == Mul64(p.value, factor)
         IN  IF p.err # "" THEN [err |-> p.err, value |-> Zero64]
             ELSE IF ~Less64(Zero64, res) \/ Less64(TB, res)
                  THEN [err |-> "invalid", value |-> Zero64]
             ELSE [err |-> "", value |-> res]

\* ------------------------------------------------ contents and hashes
\* size of the buffer the file contents are taken from
bufferSize == 1 * MB

\* A run of bytes is a sequence of chunks of contentsBuffer, each the len
\* bytes from offset off; two runs built by Feed are the same bytes when they
\* are the same sequence.
Feed(c, off, n) ==
    IF n = 0 THEN c
    ELSE IF c # <<>> /\ c[Len(c)].off + c[Len(c)].len = off
         THEN [c EXCEPT ![Len(c)].len = c[Len(c)].len + n]
    ELSE Append(c, [off |-> off, len |-> n])

\* number of bytes of a run
RECURSIVE BytesIn(_)
BytesIn(c) == IF c = <<>> THEN 0 ELSE c[1].len + BytesIn(Tail(c))

\* keys of the algorithms
SHA256 == 1
SHA512 == 2
\* the registry of supported checksum algorithms: key -> name
checksumMap == (SHA256 :> "sha256") @@ (SHA512 :> "sha512")

\* strings.ToLower on the algorithm names the exchanges carry
ToLower(s) ==
    CASE s = "SHA256" -> "sha256"
      [] s = "Sha512" -> "sha512"
      [] s = "SHA512" -> "sha512"
      [] s = "MD5" -> "md5"
      [] OTHER -> s

\* getChecksumByName: the hash function registered under a name ("": none)
getChecksumByName(name) ==
    IF \E k \in DOMAIN checksumMap : checksumMap[k] = ToLower(name)
    THEN ToLower(name) ELSE ""
getChecksumByKey(key) == IF key \in DOMAIN checksumMap THEN checksumMap[key] ELSE ""
getChecksumName(algo) == IF algo \in DOMAIN checksumMap THEN checksumMap[algo] ELSE ""
\* a lookup that knows the names only as they are registered
isChecksumAvailableExact(name) == \E k \in DOMAIN checksumMap : checksumMap[k] = name
isChecksumAvailable(name) == getChecksumByName(name) # ""

\* hex.EncodeToString(hasher.Sum(nil)) of a hash function fed the run data:
\* lower-case digits; different functions or different bytes give different
\* digests
HexSum(hashFunc, data) == [alg |-> hashFunc, data |-> data, case |-> "lower"]
\* strings.ToLower on a digest string
ToLowerHex(d) == [d EXCEPT !.case = "lower"]

\* ---------------------------------------------------- ResponseWriter
\* WriteHeader: the status line is sent once; a later call changes nothing
WriteHeader(w, code) ==
    IF w.wroteHeader THEN w ELSE [w EXCEPT !.wroteHeader = TRUE, !.status = code]
\* http.Error: the status and a text message
httpError(w, code) == [WriteHeader(w, code) EXCEPT !.errBody = TRUE]
\* Write of n bytes of the buffer from offset off; the first Write sends the
\* header with status 200 when none was sent
Write(w, off, n) == [WriteHeader(w, 200) EXCEPT !.body = Feed(@, off, n)]
\* Header().Set after the header was sent: the value is sent as a trailer
\* when the Trailer header announced it
SetTrailerNever(w, name, v) == w
SetTrailer(w, name, v) ==
    IF name \notin w.declared THEN w
    ELSE IF name = "X-Content-Length" THEN [w EXCEPT !.clen = v]
    ELSE [w EXCEPT !.cval = v]

\* ------------------------------------------------------------ server
\* Serve: the mux sends the path /file to handleGetFile and every other path
\* to http.NotFound
Route(r) == IF r.path = "/file" THEN "handleGetFile" ELSE "NotFound"

\* isAuthorized: every client may retrieve every file
isAuthorized(fileID, size, subject, issuer) == TRUE

\* handleGetFile, the checks of the query: 400 for the first that fails, 0
\* when all pass
QueryStatusManyIds(r) ==
    IF r.badQuery THEN 400
    ELSE IF Len(r.id) = 0 THEN 400
    ELSE IF Len(r.size) # 1 THEN 400
    ELSE IF parseSize(r.size[1]).err # "" THEN 400
    ELSE IF Len(r.checksum) > 1 THEN 400
    ELSE IF Len(r.checksum) = 1 /\ ~isChecksumAvailable(r.checksum[1]) THEN 400
    ELSE 0
QueryStatus(r) ==
    IF r.badQuery THEN 400
    ELSE IF Len(r.id) # 1 THEN 400
    ELSE IF Len(r.size) # 1 THEN 400
    ELSE IF parseSize(r.size[1]).err # "" THEN 400
    ELSE IF Len(r.checksum) > 1 THEN 400
    ELSE IF Len(r.checksum) = 1 /\ ~isChecksumAvailable(r.checksum[1]) THEN 400
    ELSE 0

\* handleGetFile up to the authorization: the status of the error it answers,
\* 0 when the request passes
GetFileStatusQueryFirst(r) ==
    IF QueryStatus(r) # 0 THEN QueryStatus(r)
    ELSE IF r.method # "GET" THEN 405
    ELSE 0
GetFileStatus(r) ==
    IF r.method # "GET" THEN 405
    ELSE IF QueryStatus(r) # 0 THEN QueryStatus(r)
    ELSE IF ~isAuthorized(r.id[1], parseSize(r.size[1]).value, "", "") THEN 403
    ELSE 0

\* the server receives the request: the mux routes it, handleGetFile checks
\* it and, when it passes, serveFile sets the headers and is about to stream.
\* After the checks of the query the handler reads req.TLS.PeerCertificates:
\* req.TLS is nil for a request that came without TLS, the handler panics and
\* the connection ends with no response
ServerHandle ==
    /\ fpc = "request"
    /\ scenario \in {"raw", "download"}
    /\ LET st == IF Route(hreq) = "NotFound" THEN 404 ELSE GetFileStatus(hreq)
           size == IntOf64(parseSize(hreq.size[1]).value)
           checksumAlg == IF Len(hreq.checksum) = 1 THEN hreq.checksum[1] ELSE ""
       IN  IF st # 0
           THEN /\ rw' = httpError(rw, st)
                /\ srv' = [srv EXCEPT !.code = st]
                /\ fpc' = "response"
           ELSE IF hreq.tls = "plain"
           THEN /\ rw' = rw
                /\ srv' = [srv EXCEPT !.panic = TRUE]
                /\ fpc' = "response"
           ELSE /\ rw' = [rw EXCEPT
                            !.declared = IF checksumAlg # ""
                                         THEN {"X-Content-Length", "X-Checksum-Value"}
                                         ELSE {"X-Content-Length"},
                            !.chkAlg = checksumAlg]
                /\ srv' = [srv EXCEPT !.size = size, !.alg = checksumAlg,
                                      !.remain = size, !.pos = 0]
                /\ fpc' = "serving"
    /\ UNCHANGED <<scenario, sizeArg, parsed, call, hreq, issued, report>>
    /\ UNCHANGED <<envvars, cvars, chvars, evars, wvars, kvars, hvars, lvars, ivars, svars, dvars>>

\* count := min(int64(rdr.Len()), remain)
ChunkCountWholeBuffer(len, remain) == len
ChunkCount(len, remain) == minInt(len, remain)

\* io.TeeReader(rdr, hasher): the hasher is fed the n bytes read from offset
\* off; without a hasher nothing is recorded
TeeWholeBuffer(h, alg, off, n) ==
    IF alg = "" THEN h ELSE Feed(h, off, bufferSize - off)
Tee(h, alg, off, n) == IF alg = "" THEN h ELSE Feed(h, off, n)

\* if rdr.Len() == 0 { rdr.Seek(0, 0) }: the position the reader is at once
\* the loop has looked at what is left of the buffer
SeekPastStart(pos) == IF bufferSize - pos = 0 THEN 1 ELSE pos
Seek(pos) == IF bufferSize - pos = 0 THEN 0 ELSE pos

\* one pass of serveFile's loop: rewind the reader when it is exhausted, then
\* io.CopyN of count bytes, which either writes them all or fails after
\* writing sent of them, the hasher having been fed what was read
ServeChunk ==
    /\ fpc = "serving"
    /\ srv.remain > 0
    /\ LET pos == Seek(srv.pos)
           count == ChunkCount(bufferSize - pos, srv.remain)
       IN  \/ /\ rw' = Write(rw, pos, count)
              /\ srv' = [srv EXCEPT !.pos = pos + count,
                                    !.remain = srv.remain - count,
                                    !.hashed = Tee(@, srv.alg, pos, count)]
              /\ fpc' = "serving"
           \/ \E sent \in {0, count - 1}, read \in {count - 1, count} :
              /\ sent < read
              /\ rw' = httpError(Write(rw, pos, sent), 500)
              /\ srv' = [srv EXCEPT !.pos = pos + read,
                                    !.hashed = Tee(@, srv.alg, pos, read),
                                    !.writeErr = TRUE, !.code = 500]
              /\ fpc' = "response"
    /\ UNCHANGED <<scenario, sizeArg, parsed, call, hreq, issued, report>>
    /\ UNCHANGED <<envvars, cvars, chvars, evars, wvars, kvars, hvars, lvars, ivars, svars, dvars>>

\* the end of serveFile: the trailers
ServeTrailers ==
    /\ fpc = "serving"
    /\ srv.remain <= 0
    /\ rw' = LET w == SetTrailer(rw, "X-Content-Length", FormatInt(srv.size))
             IN  IF srv.alg = "" THEN w
                 ELSE SetTrailer(w, "X-Checksum-Value",
                                 HexSum(getChecksumByName(srv.alg), srv.hashed))
    /\ srv' = [srv EXCEPT !.code = 200]
    /\ fpc' = "response"
    /\ UNCHANGED <<scenario, sizeArg, parsed, call, hreq, issued, report>>
    /\ UNCHANGED <<envvars, cvars, chvars, evars, wvars, kvars, hvars, lvars, ivars, svars, dvars>>

\* ------------------------------------------------------------ client
\* DownloadFile refuses the call before any request
InvalidAlgorithmAnyMode(chkMode, algorithm) == algorithm = ""
InvalidAlgorithm(chkMode, algorithm) == chkMode # "ChecksumNone" /\ algorithm = ""

\* DownloadFile up to c.Do(req): the check of the algorithm, then the request
DlStart ==
    /\ fpc = "call"
    /\ LET algorithm == getChecksumName(call.chkAlgo)
           doRequestChecksum ==
               call.chkMode \in {"ChecksumServerOnly", "ChecksumClientAndServer"}
       IN  IF InvalidAlgorithm(call.chkMode, algorithm)
           THEN /\ report' = [report EXCEPT !.Err = "invalid requested checksum algorithm"]
                /\ fpc' = "done"
                /\ UNCHANGED <<hreq, issued>>
           ELSE /\ hreq' = [method |-> "GET", path |-> "/file", badQuery |-> FALSE,
                            id |-> <<"fileID">>,
                            size |-> <<FormatInt(call.size)>>,
                            checksum |-> IF doRequestChecksum THEN <<algorithm>> ELSE <<>>,
                            tls |-> IF call.cert THEN "cert" ELSE "anon"]
                /\ issued' = TRUE
                /\ fpc' = "request"
                /\ UNCHANGED report
    /\ UNCHANGED <<scenario, sizeArg, parsed, call, rw, srv>>
    /\ UNCHANGED <<envvars, cvars, chvars, evars, wvars, kvars, hvars, lvars, ivars, svars, dvars>>

\* bodyLength, _ := strconv.ParseUint(clength, 10, 64);
\* int64(bodyLength) != received
LengthMatches(clength, received) == ParseUint(clength).value = IntTo64(received)

\* clientCheckSum != serverChecksum
ChecksumMatchesAlways(clientCheckSum, serverChecksum) == TRUE
ChecksumMatches(clientCheckSum, serverChecksum) == clientCheckSum = serverChecksum

\* report.Checksum = fmt.Sprintf("%s:%s", algorithm, ...)
ReportChecksum(chkMode, algorithm, serverChecksum, clientCheckSum) ==
    IF chkMode = "ChecksumNone" THEN NoChecksum
    ELSE IF serverChecksum # EmptyDigest
         THEN [algorithm |-> algorithm, hex |-> serverChecksum, colon |-> TRUE]
    ELSE [algorithm |-> algorithm, hex |-> clientCheckSum, colon |-> TRUE]

\* DownloadFile after c.Do(req) returned the response w: the report
ReportOf(c, w) ==
    LET algorithm == getChecksumName(c.chkAlgo)
        both == c.chkMode = "ChecksumClientAndServer"
        serverAlgo == ToLower(w.chkAlg)
        received == BytesIn(w.body)
        clientCheckSum ==
            IF c.chkMode \in {"ChecksumClientOnly", "ChecksumClientAndServer"}
            THEN ToLowerHex(HexSum(getChecksumByKey(c.chkAlgo), w.body))
            ELSE EmptyDigest
        serverChecksum == IF both THEN ToLowerHex(w.cval) ELSE EmptyDigest
        failure(msg) == [Err |-> msg, Checksum |-> NoChecksum]
    IN  IF w.status # 200 THEN failure("error downloading file")
        ELSE IF both /\ algorithm # serverAlgo THEN failure("unexpected server algorithm")
        ELSE IF Len(w.clen) = 0 THEN failure("missing X-Content-Length trailer")
        ELSE IF ~LengthMatches(w.clen, received)
             THEN failure("response body length does not match X-Content-Length")
        ELSE IF both /\ serverChecksum = EmptyDigest
             THEN failure("missing X-Checksum-Value trailer")
        ELSE IF both /\ ~ChecksumMatches(clientCheckSum, serverChecksum)
             THEN failure("computed checksum and received checksum do not match")
        ELSE [Err |-> "",
              Checksum |-> ReportChecksum(c.chkMode, algorithm, serverChecksum,
                                          clientCheckSum)]

\* DownloadFile reads the response and returns
DlReceive ==
    /\ fpc = "response"
    /\ scenario \in {"download", "foreign"}
    /\ report' = ReportOf(call, rw)
    /\ fpc' = "done"
    /\ UNCHANGED <<scenario, sizeArg, parsed, call, hreq, issued, rw, srv>>
    /\ UNCHANGED <<envvars, cvars, chvars, evars, wvars, kvars, hvars, lvars, ivars, svars, dvars>>

\* ------------------------------------------------------------ inputs
\* arguments of parseSize: the examples of the documentation ("1K", "0",
\* "-5", "", "2T"), plain numbers, each suffix, the values around 1 TiB, and
\* numbers whose product with the factor exceeds 64 bits
SizeStrings ==
    {<<>>, <<"0">>, <<"-", "5">>, <<"2", "T">>, <<"1">>, <<"1", "0", "0", "0">>,
     <<"0", "0", "7">>, <<"+", "5">>, <<"-", "0">>, <<"1", "K">>, <<"1", "M">>,
     <<"1", "G">>, <<"0", "K">>, <<"K">>, <<"1", "K", "K">>, <<"1", "k">>,
     <<"1", "2", "a">>, <<"1", "0", "2", "4", "G">>, <<"1", "0", "2", "5", "G">>,
     <<"1", "0", "4", "8", "5", "7", "6", "M">>,
     <<"1", "0", "4", "8", "5", "7", "7", "M">>,
     <<"1", "0", "9", "9", "5", "1", "1", "6", "2", "7", "7", "7", "6">>,
     <<"1", "0", "9", "9", "5", "1", "1", "6", "2", "7", "7", "7", "7">>,
     <<"1", "8", "0", "1", "4", "3", "9", "8", "5", "0", "9", "4", "8", "1", "9", "8", "5", "K">>,
     <<"-", "1", "8", "0", "1", "4", "3", "9", "8", "5", "0", "9", "4", "8", "1", "9", "8", "3", "K">>,
     <<"1", "7", "1", "7", "9", "8", "6", "9", "1", "8", "5", "G">>,
     <<"9", "2", "2", "3", "3", "7", "2", "0", "3", "6", "8", "5", "4", "7", "7", "5", "8", "0", "7">>,
     <<"9", "2", "2", "3", "3", "7", "2", "0", "3", "6", "8", "5", "4", "7", "7", "5", "8", "0", "8">>,
     <<"9", "9", "9", "9", "9", "9", "9", "9", "9", "9", "9", "9", "9", "9", "9", "9", "9", "9", "9", "9">>}

\* requests a client may send to the server
RawMethods == {"GET", "HEAD", "POST"}
RawPaths == {"/file", "/", "/files"}
RawIds == {<<>>, <<"a">>, <<"a", "b">>}
RawSizes ==
    {<<>>, <<<<"1", "K">>>>, <<<<"3">>>>, <<<<>>>>, <<<<"x">>>>, <<<<"0">>>>,
     <<<<"1", "K">>, <<"2">>>>}
RawChecksums ==
    {<<>>, <<"sha256">>, <<"SHA512">>, <<"md5">>, <<"">>, <<"sha256", "sha512">>}
RawRequests ==
    [method : RawMethods, path : RawPaths, badQuery : BOOLEAN, id : RawIds,
     size : RawSizes, checksum : RawChecksums, tls : {"plain", "anon", "cert"}]

ChecksumModes ==
    {"ChecksumNone", "ChecksumClientOnly", "ChecksumServerOnly", "ChecksumClientAndServer"}
\* keys of algorithms: NONE, the two registered ones, and an unknown one
AlgorithmKeys == {0, SHA256, SHA512, SHA512 + 1}
\* sizes below, equal to, above, a multiple of and not a multiple of the buffer
DownloadSizes ==
    {0, 1, 1000, bufferSize - 1, bufferSize, bufferSize + 1, 2 * bufferSize,
     2 * bufferSize + 5}
\* DownloadFile calls against the server of this repository; cert: the client
\* presents a certificate
Calls == [size : DownloadSizes, chkMode : ChecksumModes, chkAlgo : AlgorithmKeys,
          cert : BOOLEAN]

\* DownloadFile calls against some other server, and the responses such a
\* server may give
ForeignCalls == [size : {5}, chkMode : ChecksumModes, chkAlgo : AlgorithmKeys,
                 cert : {FALSE}]
ForeignBodies == {<<>>, Feed(<<>>, 0, 5)}
ForeignDigests ==
    {EmptyDigest} \cup [alg : {"sha256", "sha512"}, data : ForeignBodies,
                        case : {"lower", "upper"}]
ForeignResponses ==
    [wroteHeader : {TRUE}, status : {200, 500}, declared : {{}},
     chkAlg : {"", "sha256", "SHA256", "sha512"}, body : ForeignBodies,
     errBody : {FALSE},
     clen : {<<>>, <<"0">>, <<"5">>, <<"6">>, <<"a", "b", "c">>},
     cval : ForeignDigests]

\* ------------------------------------------------ the exchange's spec
\* a call of parseSize
ParseSizeCall ==
    /\ fpc = "parse"
    /\ parsed' = parseSize(sizeArg)
    /\ fpc' = "done"
    /\ UNCHANGED <<scenario, sizeArg, call, hreq, issued, rw, srv, report>>
    /\ UNCHANGED <<envvars, cvars, chvars, evars, wvars, kvars, hvars, lvars, ivars, svars, dvars>>

\* a server that is not this repository's answers the request
ForeignRespond ==
    /\ fpc = "request"
    /\ scenario = "foreign"
    /\ rw' \in ForeignResponses
    /\ fpc' = "response"
    /\ UNCHANGED <<scenario, sizeArg, parsed, call, hreq, issued, srv, report>>
    /\ UNCHANGED <<envvars, cvars, chvars, evars, wvars, kvars, hvars, lvars, ivars, svars, dvars>>

\* one exchange: a parseSize call, a request sent to the server, a
\* DownloadFile call against the server, or a DownloadFile call against
\* another server; the client runs no campaign meanwhile
FileInit ==
    /\ CampaignInit
    /\ req.ServerAddrs = 1 /\ req.Duration = 0 /\ req.Concurrency = 0
    /\ configOK
    /\ loadMethod = "POST" /\ loadBody = "json"
    /\ NoDriver
    /\ NoServing
    /\ Untimed
    /\ NoCampaigns
    /\ parsed = NoParse
    /\ issued = FALSE
    /\ rw = NoRW
    /\ srv = NoSrv
    /\ report = NoReport
    /\ \/ /\ scenario = "parse"
          /\ fpc = "parse"
          /\ sizeArg \in SizeStrings
          /\ call = NoCall
          /\ hreq = NoHReq
       \/ /\ scenario = "raw"
          /\ fpc = "request"
          /\ sizeArg = <<>>
          /\ call = NoCall
          /\ hreq \in RawRequests
       \/ /\ scenario = "download"
          /\ fpc = "call"
          /\ sizeArg = <<>>
          /\ call \in Calls
          /\ hreq = NoHReq
       \/ /\ scenario = "foreign"
          /\ fpc = "call"
          /\ sizeArg = <<>>
          /\ call \in ForeignCalls
          /\ hreq = NoHReq

FileNext ==
    \/ ParseSizeCall
    \/ DlStart
    \/ ServerHandle
    \/ ServeChunk
    \/ ServeTrailers
    \/ ForeignRespond
    \/ DlReceive

FileSpec == FileInit /\ [][FileNext]_vars

\* ------------------------------------------- properties of the exchange
\* the size the request asks for, once the handler accepted it
RequestedSize == IntOf64(parseSize(hreq.size[1]).value)
\* the handler took the request and no write to the connection failed
ServedWithoutError == scenario \in {"raw", "download"} /\ ~srv.writeErr

\* C11: when no write fails, serveFile has written exactly the requested
\* number of body bytes when it returns, whatever the size is relative to the
\* 1 MiB buffer, and the X-Content-Length trailer is set only once the body is
\* complete, to the decimal form of the size.
C11_ServesExactSize ==
    ServedWithoutError =>
        /\ rw.clen # <<>> =>
              /\ fpc \in {"response", "done"}
              /\ BytesIn(rw.body) = RequestedSize
        /\ (fpc \in {"response", "done"} /\ srv.code = 200) =>
              /\ BytesIn(rw.body) = RequestedSize
              /\ rw.clen = FormatInt(RequestedSize)
              /\ ParseUint(rw.clen) = [err |-> "", value |-> IntTo64(RequestedSize)]
\* a size that is larger than the buffer and not a multiple of it was served
\* in three chunks
C11_Witness ==
    /\ ServedWithoutError
    /\ fpc = "response"
    /\ srv.code = 200
    /\ RequestedSize = 2 * bufferSize + 5
    /\ Len(rw.body) = 3
    /\ BytesIn(rw.body) = 2 * bufferSize + 5
    /\ rw.clen = FormatInt(2 * bufferSize + 5)

\* C12: when a checksum is requested and no write fails, the server's hasher
\* has been fed exactly the bytes written to the body, in the same order, at
\* every point of the streaming; so in mode BOTH the hash the client computes
\* over the body equals the server's X-Checksum-Value.
C12_HasherSeesBody ==
    /\ (ServedWithoutError /\ srv.alg # "") => srv.hashed = rw.body
    /\ (scenario = "download" /\ ~srv.writeErr /\ fpc = "done" /\ srv.code = 200
        /\ call.chkMode = "ChecksumClientAndServer") =>
           /\ rw.cval # EmptyDigest
           /\ ToLowerHex(HexSum(getChecksumByKey(call.chkAlgo), rw.body)) = rw.cval
\* a SHA-512 download in mode BOTH of one byte more than the buffer
C12_Witness ==
    /\ scenario = "download"
    /\ fpc = "done"
    /\ srv.code = 200
    /\ call.chkMode = "ChecksumClientAndServer"
    /\ call.chkAlgo = SHA512
    /\ call.size = bufferSize + 1
    /\ srv.hashed = rw.body
    /\ rw.cval = HexSum("sha512", rw.body)

\* C13: a request to a path other than /file is answered 404 whatever its
\* method, and a request to /file with a method other than GET is answered
\* 405 whatever its query.
C13_RouteThenMethod ==
    (scenario = "raw" /\ fpc = "response") =>
        /\ hreq.path # "/file" => rw.status = 404
        /\ (hreq.path = "/file" /\ hreq.method # "GET") => rw.status = 405
\* a HEAD request to /file whose query is not acceptable was answered 405
C13_Witness ==
    /\ scenario = "raw"
    /\ fpc = "response"
    /\ hreq.path = "/file"
    /\ hreq.method = "HEAD"
    /\ QueryStatus(hreq) = 400
    /\ rw.status = 405

\* the query of the request is one the handler must refuse
BadQueryOf(r) ==
    \/ Len(r.id) # 1
    \/ Len(r.size) # 1
    \/ Len(r.size[1]) = 0
    \/ parseSize(r.size[1]).err # ""
    \/ Len(r.checksum) > 1
    \/ Len(r.checksum) = 1 /\ ToLower(r.checksum[1]) \notin {"sha256", "sha512"}

\* C14: a GET request to /file whose id is missing or repeated, whose size is
\* missing, repeated, empty or unparsable, or whose checksum is repeated or
\* unsupported, is answered 400 and no byte of payload is written.
C14_BadQueryIs400 ==
    /\ (scenario = "raw" /\ fpc = "response" /\ hreq.path = "/file"
        /\ hreq.method = "GET" /\ BadQueryOf(hreq)) =>
           /\ rw.status = 400
           /\ rw.body = <<>>
    /\ rw.status = 400 => rw.body = <<>>
\* a GET whose id is given twice, everything else being acceptable
C14_Witness ==
    /\ scenario = "raw"
    /\ fpc = "response"
    /\ hreq.path = "/file"
    /\ hreq.method = "GET"
    /\ ~hreq.badQuery
    /\ Len(hreq.id) = 2
    /\ Len(hreq.size) = 1
    /\ parseSize(hreq.size[1]).err = ""
    /\ hreq.checksum = <<"sha256">>
    /\ rw.status = 400
    /\ rw.body = <<>>

\* the string is one or more decimal digits
AllDigits(s) == Len(s) > 0 /\ \A i \in 1..Len(s) : IsDigit(s[i])

\* the number a string of digits stands for, the reading stopping at the
\* first value above 1 TiB
RECURSIVE DecimalValue(_, _, _)
DecimalValue(s, i, n) ==
    IF i > Len(s) \/ LessFrom(TB, n, 7) THEN n
    ELSE DecimalValue(s, i + 1, MulAdd(n, 10, DigitVal(s[i]), 1))

\* what a size string means: a decimal integer n, with an optional sign and
\* an optional single suffix K, M or G, is valid when v = n * 1024^k lies in
\* (0, 1 TiB], computed without any wrap-around: n must be positive and at
\* most 1 TiB / 1024^k
SizeMeaning(s) ==
    LET last == IF Len(s) = 0 THEN "" ELSE s[Len(s)]
        suffixed == last \in {"K", "M", "G"}
        num == IF suffixed THEN SubSeq(s, 1, Len(s) - 1) ELSE s
        signed == Len(num) > 0 /\ num[1] \in {"+", "-"}
        digits == IF signed THEN Tail(num) ELSE num
        n == DecimalValue(digits, 1, Zero64)
        factor == CASE last = "K" -> KB [] last = "M" -> MB64 [] last = "G" -> GB
                    [] OTHER -> One64
        limit == CASE last = "K" -> GB [] last = "M" -> MB64 [] last = "G" -> KB
                   [] OTHER -> TB
        valid == /\ AllDigits(digits)
                 /\ ~(signed /\ num[1] = "-")
                 /\ n # Zero64
                 /\ ~LessFrom(limit, n, 7)
    IN  [valid |-> valid, value |-> IF valid THEN Mul64(n, factor) ELSE Zero64]

\* C15: parseSize(s) succeeds exactly when s is a decimal integer with an
\* optional single suffix K, M or G whose scaled value v lies in (0, 1 TiB],
\* and then returns v; every other string, also one whose product does not
\* fit 64 bits, is an error.
C15_ParseSizeExact ==
    (scenario = "parse" /\ fpc = "done") =>
        /\ parsed.err = "" <=> SizeMeaning(sizeArg).valid
        /\ parsed.err = "" => parsed.value = SizeMeaning(sizeArg).value

\* a DownloadFile call has returned
Returned == scenario \in {"download", "foreign"} /\ fpc = "done"
\* the call was made against this repository's server with a size the server
\* accepts, and no write to the connection failed
GoodDownload ==
    scenario = "download" /\ fpc = "done" /\ call.size > 0 /\ ~srv.writeErr

\* C16: with a checksum mode other than NONE and an algorithm key outside
\* the registry, DownloadFile returns an error and never issues a request;
\* with mode NONE an unknown key is ignored: the request is issued, and the
\* download succeeds when the server serves it.
C16_UnknownAlgorithm ==
    call.chkAlgo \notin DOMAIN checksumMap =>
        /\ (scenario \in {"download", "foreign"} /\ call.chkMode # "ChecksumNone") =>
              /\ ~issued
              /\ fpc \in {"call", "done"}
              /\ fpc = "done" => report.Err # ""
        /\ (Returned /\ call.chkMode = "ChecksumNone") => issued
        /\ (GoodDownload /\ call.chkMode = "ChecksumNone") => report.Err = ""
\* a SERVER_ONLY call with an unknown key returned an error, no request issued
C16_Witness ==
    /\ scenario = "download"
    /\ fpc = "done"
    /\ call.chkMode = "ChecksumServerOnly"
    /\ call.chkAlgo \notin DOMAIN checksumMap
    /\ call.chkAlgo # 0
    /\ ~issued
    /\ hreq = NoHReq
    /\ rw = NoRW
    /\ report.Err # ""

\* C17: for SHA-256 and SHA-512 and each of the four checksum modes, a
\* DownloadFile call against this repository's /file handler, for a size the
\* handler accepts and over a connection that does not fail, is answered 200
\* and reports no error, for an anonymous client and for one presenting a
\* certificate.
C17_ClientAcceptsServer ==
    (GoodDownload /\ call.chkAlgo \in DOMAIN checksumMap) =>
        /\ rw.status = 200
        /\ report.Err = ""
\* an anonymous SHA-256 download in mode BOTH succeeded
C17_Witness ==
    /\ GoodDownload
    /\ call.chkAlgo = SHA256
    /\ call.chkMode = "ChecksumClientAndServer"
    /\ ~call.cert
    /\ hreq.tls = "anon"
    /\ rw.chkAlg = "sha256"
    /\ rw.cval # EmptyDigest
    /\ report.Err = ""

\* the string is a decimal number equal to n
DecimalEquals(s, n) == AllDigits(s) /\ DecimalValue(s, 1, Zero64) = IntTo64(n)

\* C18: DownloadFile reports a failure whenever the X-Content-Length trailer
\* is absent or differs from the number of body bytes copied, and reports
\* success only when the trailer is a decimal number equal to that count.
C18_LengthChecked ==
    (Returned /\ issued) =>
        /\ ~DecimalEquals(rw.clen, BytesIn(rw.body)) => report.Err # ""
        /\ report.Err = "" => DecimalEquals(rw.clen, BytesIn(rw.body))

\* a = b ignoring letter case
EqualFold(a, b) == ToLower(a) = ToLower(b)
\* the hash the client computes over the body it received
LocalHash == HexSum(getChecksumByKey(call.chkAlgo), rw.body)

\* C19: in mode BOTH, DownloadFile reports a failure when the response's
\* X-Checksum-Algorithm header differs, ignoring case, from the requested
\* algorithm's name, when the X-Checksum-Value trailer is missing, or when it
\* differs, ignoring case, from the local hash; a call in mode BOTH succeeds
\* only when all three checks pass.
C19_BothChecks ==
    (Returned /\ issued /\ call.chkMode = "ChecksumClientAndServer") =>
        LET passes == /\ EqualFold(rw.chkAlg, getChecksumName(call.chkAlgo))
                      /\ rw.cval # EmptyDigest
                      /\ ToLowerHex(rw.cval) = ToLowerHex(LocalHash)
        IN  /\ ~passes => report.Err # ""
            /\ report.Err = "" => passes
\* a response naming the algorithm and giving the digest in capitals passed
C19_Witness ==
    /\ scenario = "foreign"
    /\ fpc = "done"
    /\ call.chkMode = "ChecksumClientAndServer"
    /\ call.chkAlgo = SHA256
    /\ rw.chkAlg = "SHA256"
    /\ rw.cval = [alg |-> "sha256", data |-> rw.body, case |-> "upper"]
    /\ BytesIn(rw.body) = 5
    /\ report.Err = ""

\* C20: a successful DownloadFile call with a mode other than NONE returns a
\* Checksum of the form algo:hex whose hex part is not empty: the server's
\* X-Checksum-Value in modes SERVER_ONLY and BOTH when the server supplied
\* one, the local hash in mode CLIENT_ONLY; with mode NONE the Checksum is
\* empty.
C20_ChecksumReported ==
    (Returned /\ issued /\ report.Err = "") =>
        IF call.chkMode = "ChecksumNone" THEN report.Checksum = NoChecksum
        ELSE /\ report.Checksum.colon
             /\ report.Checksum.algorithm = getChecksumName(call.chkAlgo)
             /\ report.Checksum.hex # EmptyDigest
             /\ (call.chkMode \in {"ChecksumServerOnly", "ChecksumClientAndServer"}
                 /\ rw.cval # EmptyDigest) =>
                    report.Checksum.hex = ToLowerHex(rw.cval)
             /\ call.chkMode = "ChecksumClientOnly" =>
                    report.Checksum.hex = ToLowerHex(LocalHash)

\* ----------------------------------------------------------- the driver
\* strings.Index(s, ","): the position of the first comma, 0 when none
RECURSIVE IndexComma(_, _)
IndexComma(s, i) ==
    IF i > Len(s) THEN 0
    ELSE IF s[i] = "," THEN i
    ELSE IndexComma(s, i + 1)

\* strings.Split(s, ","): the substrings between the commas, in order; a
\* string without comma, the empty one included, is its only component
RECURSIVE Split(_)
Split(s) ==
    LET i == IndexComma(s, 1)
    IN  IF i = 0 THEN <<s>>
        ELSE <<SubSeq(s, 1, i - 1)>> \o Split(SubSeq(s, i + 1, Len(s)))

\* the slices a range over the keys of a map holding S may build: the order
\* of a map's keys is not specified, every order may occur
KeyOrders(S) ==
    {q \in [1..Cardinality(S) -> S] :
        \A i, j \in 1..Cardinality(S) : i # j => q[i] # q[j]}

\* a splitAndClean that returns the components as strings.Split gives them
splitAndCleanKeepAll(s) == {Split(s)}

\* splitAndClean: the components become the keys of a map, the keys of the
\* map are returned; the set of the slices the call may return
splitAndClean(s) == KeyOrders({Split(s)[i] : i \in DOMAIN Split(s)})

\* http.NewRequest fails for a URL that does not parse: a blank in the host
NewRequestFails(addr) == \E i \in DOMAIN addr : addr[i] = " "

\* LoadReport{client: clientAddr}: no request, no response (nil), no error
NewLoadReport(addr) ==
    [client |-> addr, err |-> "", hasResp |-> FALSE, resp |-> NoLoadResponse]

\* the LoadResponse values clients answer, the times in hours before the
\* summary is printed
ClientResponses ==
    {[Start |-> -4, End |-> -2, Concurrency |-> 2, NumFiles |-> 2, DataSize |-> 5,
      ErrCount |-> 0],
     [Start |-> -3, End |-> -1, Concurrency |-> 2, NumFiles |-> 1, DataSize |-> 3,
      ErrCount |-> 1],
     [Start |-> -4, End |-> -3, Concurrency |-> 1, NumFiles |-> 0, DataSize |-> 0,
      ErrCount |-> 2]}

\* the reports driverSendLoadRequest may end with for a client address:
\* NewRequest fails (the report stays as created), Do fails (always for an
\* empty host), the reply does not decode, or the reply is a LoadResponse
TaskReports(addr) ==
    IF NewRequestFails(addr) THEN {NewLoadReport(addr)}
    ELSE {[NewLoadReport(addr) EXCEPT !.err = "submit"]}
         \cup (IF addr = <<>> THEN {}
               ELSE {[NewLoadReport(addr) EXCEPT !.err = "deserialize"]}
                    \cup {[NewLoadReport(addr) EXCEPT !.hasResp = TRUE, !.resp = r] :
                            r \in ClientResponses})

\* 3000 * time.Hour, in hours
Hours3000 == 3000

\* the sum of a field of the responses of a set of reports
RECURSIVE TotalOf(_, _)
TotalOf(S, f) ==
    IF S = {} THEN 0
    ELSE LET r == CHOOSE x \in S : TRUE
         IN  r.resp[f] + TotalOf(S \ {r}, f)

\* a printSummary that keeps the latest Start
printSummaryLatestStart(res) ==
    LET ok == {r \in res : r.err = ""}
        late == IF ok = {} THEN {now + Hours3000} ELSE {r.resp.Start : r \in ok}
        ends == {now - Hours3000} \cup {r.resp.End : r \in ok}
        numErrors == Cardinality(res \ ok)
    IN  [done |-> TRUE,
         start |-> CHOOSE t \in late : \A u \in late : u <= t,
         end |-> CHOOSE t \in ends : \A u \in ends : u <= t,
         dataSize |-> TotalOf(ok, "DataSize"),
         numFiles |-> TotalOf(ok, "NumFiles"),
         numErrors |-> numErrors,
         errorRow |-> numErrors > 0]

\* printSummary: a report with an error adds 1 to numErrors and nothing else;
\* of the others start is the earliest Start before now + 3000 h, end the
\* latest End after now - 3000 h, dataSize and numFiles the sums; the row of
\* errors is printed when numErrors > 0
printSummary(res) ==
    LET ok == {r \in res : r.err = ""}
        starts == {now + Hours3000} \cup {r.resp.Start : r \in ok}
        ends == {now - Hours3000} \cup {r.resp.End : r \in ok}
        numErrors == Cardinality(res \ ok)
    IN  [done |-> TRUE,
         start |-> CHOOSE t \in starts : \A u \in starts : t <= u,
         end |-> CHOOSE t \in ends : \A u \in ends : u <= t,
         dataSize |-> TotalOf(ok, "DataSize"),
         numFiles |-> TotalOf(ok, "NumFiles"),
         numErrors |-> numErrors,
         errorRow |-> numErrors > 0]

\* driverRun up to sendGroup.Wait(): the client addresses, the reports
\* channel, go driverCollectLoadReports, the LoadRequest with the server
\* addresses, and one go driverSendLoadRequest per client address
DriverStart ==
    /\ ~dpanic
    /\ dpc = "start"
    /\ clientAddrs' \in splitAndClean(clientsArg)
    /\ serverAddrs' \in splitAndClean(serversArg)
    /\ collectGroup' = 1
    /\ sendGroup' = Len(clientAddrs')
    /\ tpc' = [i \in DOMAIN clientAddrs' |-> "run"]
    /\ rep' = [i \in DOMAIN clientAddrs' |-> NewLoadReport(clientAddrs'[i])]
    /\ sentCount' = [i \in DOMAIN clientAddrs' |-> 0]
    /\ dpc' = "sendWait"
    /\ UNCHANGED <<clientsArg, serversArg, reportsClosed, collected, results, printed, dpanic>>
    /\ UNCHANGED <<envvars, cvars, chvars, evars, wvars, kvars, hvars, fvars, lvars, ivars, svars>>

\* driverSendLoadRequest up to its return: the request is built and sent and
\* the reply decoded; the deferred send is next
TaskRequest(i) ==
    /\ ~dpanic
    /\ tpc[i] = "run"
    /\ \E r \in TaskReports(clientAddrs[i]) : rep' = [rep EXCEPT ![i] = r]
    /\ tpc' = [tpc EXCEPT ![i] = "send"]
    /\ UNCHANGED <<dpc, clientsArg, serversArg, clientAddrs, serverAddrs, reportsClosed,
                   collected, results, printed, sendGroup, collectGroup, sentCount, dpanic>>
    /\ UNCHANGED <<envvars, cvars, chvars, evars, wvars, kvars, hvars, fvars, lvars, ivars, svars>>

\* the deferred reports <- &rep meets rep := <-reports of the collector (the
\* channel has no buffer; a send on a closed channel panics); the collector
\* stores the report and prints it: for a report without error it reads
\* rep.resp, a nil pointer when the task returned before it had a response
TaskSend(i) ==
    /\ ~dpanic
    /\ tpc[i] = "send"
    /\ IF reportsClosed
         THEN /\ dpanic' = TRUE
              /\ UNCHANGED <<collected, results, sentCount>>
         ELSE /\ collected < Len(clientAddrs)
              /\ collected' = collected + 1
              /\ results' = {r \in results : r.client # rep[i].client} \cup {rep[i]}
              /\ sentCount' = [sentCount EXCEPT ![i] = @ + 1]
              /\ dpanic' = (rep[i].err = "" /\ ~rep[i].hasResp)
    /\ tpc' = [tpc EXCEPT ![i] = "sent"]
    /\ UNCHANGED <<dpc, clientsArg, serversArg, clientAddrs, serverAddrs, rep, reportsClosed,
                   printed, sendGroup, collectGroup>>
    /\ UNCHANGED <<envvars, cvars, chvars, evars, wvars, kvars, hvars, fvars, lvars, ivars, svars>>

\* the deferred wg.Done() of driverSendLoadRequest, after the send
TaskDone(i) ==
    /\ ~dpanic
    /\ tpc[i] = "sent"
    /\ sendGroup' = sendGroup - 1
    /\ tpc' = [tpc EXCEPT ![i] = "done"]
    /\ UNCHANGED <<dpc, clientsArg, serversArg, clientAddrs, serverAddrs, rep, reportsClosed,
                   collected, results, printed, collectGroup, sentCount, dpanic>>
    /\ UNCHANGED <<envvars, cvars, chvars, evars, wvars, kvars, hvars, fvars, lvars, ivars, svars>>

\* the loop of driverCollectLoadReports ends after n reports: close(reports)
CollectorClose ==
    /\ ~dpanic
    /\ dpc # "start"
    /\ collected = Len(clientAddrs)
    /\ ~reportsClosed
    /\ reportsClosed' = TRUE
    /\ UNCHANGED <<dpc, clientsArg, serversArg, clientAddrs, serverAddrs, tpc, rep, collected,
                   results, printed, sendGroup, collectGroup, sentCount, dpanic>>
    /\ UNCHANGED <<envvars, cvars, chvars, evars, wvars, kvars, hvars, fvars, lvars, ivars, svars>>

\* printSummary(results), then the deferred wg.Done() of the collector
CollectorPrint ==
    /\ ~dpanic
    /\ reportsClosed
    /\ ~printed.done
    /\ printed' = printSummary(results)
    /\ collectGroup' = collectGroup - 1
    /\ UNCHANGED <<dpc, clientsArg, serversArg, clientAddrs, serverAddrs, tpc, rep,
                   reportsClosed, collected, results, sendGroup, sentCount, dpanic>>
    /\ UNCHANGED <<envvars, cvars, chvars, evars, wvars, kvars, hvars, fvars, lvars, ivars, svars>>

\* sendGroup.Wait() returns when every driverSendLoadRequest has returned
DriverSendWait ==
    /\ ~dpanic
    /\ dpc = "sendWait"
    /\ sendGroup = 0
    /\ dpc' = "collectWait"
    /\ UNCHANGED <<clientsArg, serversArg, clientAddrs, serverAddrs, tpc, rep, reportsClosed,
                   collected, results, printed, sendGroup, collectGroup, sentCount, dpanic>>
    /\ UNCHANGED <<envvars, cvars, chvars, evars, wvars, kvars, hvars, fvars, lvars, ivars, svars>>

\* collectGroup.Wait() returns when the collector has returned; return nil
DriverReturn ==
    /\ ~dpanic
    /\ dpc = "collectWait"
    /\ collectGroup = 0
    /\ dpc' = "returned"
    /\ UNCHANGED <<clientsArg, serversArg, clientAddrs, serverAddrs, tpc, rep, reportsClosed,
                   collected, results, printed, sendGroup, collectGroup, sentCount, dpanic>>
    /\ UNCHANGED <<envvars, cvars, chvars, evars, wvars, kvars, hvars, fvars, lvars, ivars, svars>>

\* the -clients arguments: one address, two in both orders, a repeated one,
\* a blank after the comma, a comma at the end
ClientArgs ==
    {<<"a">>, <<"a", ",", "b">>, <<"b", ",", "a">>, <<"a", ",", "a", ",", "b">>,
     <<"a", ",", " ", "b">>, <<"a", ",">>}
\* the -servers arguments
ServerArgs ==
    {<<"a">>, <<"b", ",", "a">>, <<"a", ",", "b", ",", "a">>, <<"a", ",", "b", ",", "c">>}

\* the driver is started; no /load request and no exchange with a file
\* server is modelled beside it
DriverInit ==
    /\ req = [ServerAddrs |-> 1, Duration |-> 0, Concurrency |-> 0,
              MeanSize |-> 2 * MB, StdSize |-> 0]
    /\ configOK = TRUE
    /\ loadMethod = "POST"
    /\ loadBody = "json"
    /\ ClientInit
    /\ NoExchange
    /\ NoServing
    /\ Untimed
    /\ NoCampaigns
    /\ dpc = "start"
    /\ clientsArg \in ClientArgs
    /\ serversArg \in ServerArgs
    /\ clientAddrs = <<>>
    /\ serverAddrs = <<>>
    /\ tpc = <<>>
    /\ rep = <<>>
    /\ reportsClosed = FALSE
    /\ collected = 0
    /\ results = {}
    /\ printed = NoSummary
    /\ sendGroup = 0
    /\ collectGroup = 0
    /\ sentCount = <<>>
    /\ dpanic = FALSE

DriverNext ==
    \/ DriverStart
    \/ \E i \in DOMAIN tpc : TaskRequest(i)
    \/ \E i \in DOMAIN tpc : TaskSend(i)
    \/ \E i \in DOMAIN tpc : TaskDone(i)
    \/ CollectorClose
    \/ CollectorPrint
    \/ DriverSendWait
    \/ DriverReturn

DriverSpec == DriverInit /\ [][DriverNext]_vars

\* the driver with every goroutine that can run eventually scheduled and
\* every client eventually answering or failing
DriverFairSpec ==
    /\ DriverInit
    /\ [][DriverNext]_vars
    /\ WF_vars(DriverNext)

\* ------------------------------------------- properties of the /load handler
\* C24: /load answers 405 to a method other than POST and 400 to a body that
\* is not valid JSON or that fails validation (no server address, negative
\* duration), and for such a request nothing of a campaign is created: no
\* transport, no worker, no emitter, no collector.
C24_RejectedStartsNothing ==
    LET wrongMethod == loadMethod # "POST"
        badBody == loadBody # "json" \/ req.ServerAddrs = 0 \/ req.Duration < 0
    IN  (wrongMethod \/ badBody) /\ cpc # "process" =>
            /\ cpc = "returned"
            /\ httpStatus = IF wrongMethod THEN 405 ELSE 400
            /\ fsclients = 0
            /\ \A w \in Workers : wpc[w] = "idle"
            /\ epc = "idle"
            /\ kpc = "idle"

\* a POST with a JSON body whose only fault is a negative duration was
\* answered 400
C24_Witness ==
    /\ cpc = "returned"
    /\ loadMethod = "POST" /\ loadBody = "json"
    /\ req.ServerAddrs > 0 /\ req.Duration < 0
    /\ httpStatus = 400

\* ------------------------------------------------ properties of the worker
\* C30: a worker that receives an item past the item's deadline makes no
\* download and sends no response for it, and no download starts after the
\* deadline of its item; any other item received gets one DownloadFile call
\* and one DownloadResp, which carries the item's sequence number. A download
\* starts at the worker's reading of the clock on receipt.
C30_DeadlineOnReceipt ==
    /\ [](\A s \in SeqNumbers :
              /\ respCount[s] <= 1
              /\ s \in dropped => respCount[s] = 0)
    /\ [][/\ \A s \in SeqNumbers :
                 recvCount'[s] # recvCount[s] =>
                     LET item == Head(requests)
                     IN  /\ item.seqNumber = s
                         /\ IF now > item.notAfter
                              THEN /\ s \in dropped'
                                   /\ wpc' = wpc /\ cur' = cur /\ wresp' = wresp
                                   /\ responses' = responses
                              ELSE /\ s \notin dropped'
                                   /\ \E w \in Workers :
                                          /\ wpc[w] = "recv" /\ wpc'[w] = "download"
                                          /\ cur'[w] = item
                                          /\ \A v \in Workers \ {w} : wpc'[v] = wpc[v]
          /\ \A w \in Workers :
                 /\ (wpc[w] # "download" /\ wpc'[w] = "download") =>
                        /\ now <= cur'[w].notAfter
                        /\ recvCount'[cur'[w].seqNumber] = recvCount[cur'[w].seqNumber] + 1
                 /\ (wpc[w] = "download" /\ wpc'[w] # "download") =>
                        /\ wpc'[w] = "send"
                        /\ wresp'[w].seqNumber = cur[w].seqNumber
                        /\ cur'[w] = cur[w]
                 /\ (wpc[w] = "send" /\ wpc'[w] # "send") =>
                        /\ responses' = Append(responses, wresp[w])
                        /\ wresp[w].seqNumber = cur[w].seqNumber
                        /\ respCount'[cur[w].seqNumber] = 1
          /\ \A s \in SeqNumbers :
                 respCount'[s] # respCount[s] =>
                     \E w \in Workers : wpc[w] = "send" /\ cur[w].seqNumber = s
         ]_vars

\* one item was dropped on receipt and another one, received in time, has
\* its DownloadResp on the channel or counted
C30_Witness ==
    /\ dropped # {}
    /\ \E s \in SeqNumbers : s \notin dropped /\ recvCount[s] = 1 /\ respCount[s] = 1
    /\ \E s \in dropped : recvCount[s] = 1 /\ respCount[s] = 0

\* ------------------------------------------- properties of the pool size
\* the pool size the statement gives for a requested Concurrency c
StatedPoolSize(c) ==
    IF c = 0 THEN 2 * NCPU
    ELSE IF c > 1000 * NCPU THEN 1000 * NCPU
    ELSE c

\* C23 as stated: the pool size is 2 x NCPU for a requested Concurrency of 0,
\* 1000 x NCPU for a request above that, and the requested value otherwise
C23_Original == cpc # "process" => numWorkers = StatedPoolSize(req.Concurrency)

\* C23 amended: the pool size is 2 x NCPU when the requested Concurrency is
\* zero or negative, 1000 x NCPU when it exceeds 1000 x NCPU, and the
\* requested value otherwise; it lies in [1, 1000 x NCPU], it is the number
\* of workers started, and it is the Concurrency of the LoadResponse
C23_PoolSize ==
    /\ cpc # "process" =>
           /\ numWorkers = IF req.Concurrency <= 0 THEN 2 * NCPU
                           ELSE IF req.Concurrency > 1000 * NCPU THEN 1000 * NCPU
                           ELSE req.Concurrency
           /\ numWorkers >= 1
           /\ numWorkers <= 1000 * NCPU
    /\ cpc = "startWorkers" => wg <= numWorkers
    /\ (cpc = "wait" /\ ~requestsClosed) => wg = numWorkers
    /\ cpc = "returned" =>
           /\ httpStatus = 200
           /\ httpBody.Concurrency = numWorkers

\* a request for more workers than the limit was answered with the limit
C23_Witness ==
    /\ cpc = "returned"
    /\ req.Concurrency > 1000 * NCPU
    /\ httpBody.Concurrency = 1000 * NCPU

\* ------------------------------------- properties of the server's response
\* C25: when a write to the response fails after part of the body has been
\* streamed, the response to that request has status 500.
C25_WriteErrorIs500 ==
    (fpc = "response" /\ srv.writeErr /\ BytesIn(rw.body) > 0) => rw.status = 500

\* the canonical names of the algorithms
CanonicalNames == {"sha256", "sha512"}

\* the request is acceptable but for its checksum parameter, and came over TLS
AcceptableButChecksum(r) ==
    /\ r.path = "/file"
    /\ r.method = "GET"
    /\ ~r.badQuery
    /\ Len(r.id) = 1
    /\ Len(r.size) = 1
    /\ parseSize(r.size[1]).err = ""
    /\ r.tls # "plain"

\* C26 as stated: the X-Checksum-Algorithm header of a response is a
\* canonical lowercase name
C26_Original ==
    (scenario = "raw" /\ fpc # "request" /\ rw.chkAlg # "") =>
        rw.chkAlg \in CanonicalNames

\* C26 amended: the server accepts the checksum value in any letter case, and
\* the X-Checksum-Algorithm header carries the value as the client wrote it,
\* which is a canonical name (sha256 or sha512) once put in lower case.
C26_AlgorithmEchoed ==
    /\ (scenario = "raw" /\ fpc # "request" /\ AcceptableButChecksum(hreq)
        /\ Len(hreq.checksum) = 1 /\ ToLower(hreq.checksum[1]) \in CanonicalNames) =>
           /\ rw.status # 400
           /\ srv.code # 400
           /\ rw.chkAlg = hreq.checksum[1]
    /\ rw.chkAlg # "" => ToLower(rw.chkAlg) \in CanonicalNames

\* a request for SHA512 in capitals was served to the end, the header in
\* capitals
C26_Witness ==
    /\ scenario = "raw"
    /\ fpc = "response"
    /\ hreq.checksum = <<"SHA512">>
    /\ srv.code = 200
    /\ rw.status = 200
    /\ rw.chkAlg = "SHA512"

\* C29: a /file request that comes without TLS, or with TLS and no client
\* certificate, is served as an anonymous caller like any other valid
\* request; the handler does not fail for lack of TLS connection state.
C29_AnonymousServed ==
    (scenario = "raw" /\ fpc = "response" /\ hreq.tls \in {"plain", "anon"}
     /\ Route(hreq) = "handleGetFile" /\ GetFileStatus(hreq) = 0
     /\ ~srv.writeErr) =>
        /\ ~srv.panic
        /\ rw.status = 200
        /\ BytesIn(rw.body) = RequestedSize

\* ------------------------------------------------ properties of the driver
\* the sum of a field of the responses over the send tasks 1..n whose report
\* carries no error
RECURSIVE SumReports(_, _)
SumReports(f, n) ==
    IF n = 0 THEN 0
    ELSE (IF rep[n].err = "" THEN rep[n].resp[f] ELSE 0) + SumReports(f, n - 1)

\* C21: the error count of the campaign summary is the sum of the ErrCount of
\* the clients' LoadResponses, so a campaign in which a client reports
\* ErrCount > 0 prints a non-zero row of errors.
C21_ErrorCountAggregated ==
    printed.done =>
        /\ printed.numErrors = SumReports("ErrCount", Len(rep))
        /\ SumReports("ErrCount", Len(rep)) > 0 => printed.errorRow

\* C22: each of the N send tasks delivers exactly one LoadReport on the
\* channel whatever its path, the collector receives exactly N reports, the
\* channel is closed only after the last send has completed, and driverRun
\* returns only after the summary has been printed.
C22_EveryTaskReports ==
    /\ [](/\ \A i \in DOMAIN sentCount : sentCount[i] <= 1
          /\ collected <= Len(clientAddrs)
          /\ reportsClosed =>
                 /\ collected = Len(clientAddrs)
                 /\ \A i \in DOMAIN sentCount : sentCount[i] = 1
          /\ dpc = "returned" => printed.done)
    /\ <>(/\ dpc # "start"
          /\ collected = Len(clientAddrs)
          /\ \A i \in DOMAIN sentCount : sentCount[i] = 1)

\* C27: the summary's start is the earliest Start and its end the latest End
\* among the client reports without error, its file count and data volume
\* are the sums of their NumFiles and DataSize; a report that carries an
\* error contributes to none of the four.
C27_SummaryTotals ==
    printed.done =>
        LET ok == {i \in DOMAIN rep : rep[i].err = ""}
        IN  /\ ok # {} =>
                  /\ \E i \in ok : printed.start = rep[i].resp.Start
                  /\ \A i \in ok : printed.start <= rep[i].resp.Start
                  /\ \E i \in ok : printed.end = rep[i].resp.End
                  /\ \A i \in ok : printed.end >= rep[i].resp.End
            /\ printed.numFiles = SumReports("NumFiles", Len(rep))
            /\ printed.dataSize = SumReports("DataSize", Len(rep))

\* the summary of two clients that answered different LoadResponses
C27_Witness ==
    /\ printed.done
    /\ Len(rep) = 2
    /\ rep[1].err = "" /\ rep[2].err = ""
    /\ rep[1].resp.Start = -3 /\ rep[2].resp.Start = -4
    /\ rep[1].resp.End = -1 /\ rep[2].resp.End = -2
    /\ printed.start = -4 /\ printed.end = -1
    /\ printed.numFiles = 3 /\ printed.dataSize = 8

\* the components of a comma-separated string: the substrings without comma
\* that reach from the start or a comma to the end or a comma
ComponentsOf(s) ==
    {SubSeq(s, i, j) : <<i, j>> \in
        {p \in (1..(Len(s) + 1)) \X (0..Len(s)) :
            /\ p[2] >= p[1] - 1
            /\ \A k \in p[1]..p[2] : s[k] # ","
            /\ (p[1] = 1 \/ s[p[1] - 1] = ",")
            /\ (p[2] = Len(s) \/ s[p[2] + 1] = ",")}}

\* the elements of a sequence
ElementsOf(q) == {q[i] : i \in DOMAIN q}

\* C28: splitAndClean returns each distinct component of its input exactly
\* once: no duplicates, the set of its elements is the set of components of
\* the input, and that set is the same for inputs that differ in the order
\* or multiplicity of their components.
C28_SplitAndCleanDistinct ==
    dpc # "start" =>
        /\ \A i, j \in DOMAIN clientAddrs : i # j => clientAddrs[i] # clientAddrs[j]
        /\ \A i, j \in DOMAIN serverAddrs : i # j => serverAddrs[i] # serverAddrs[j]
        /\ ElementsOf(clientAddrs) = ComponentsOf(clientsArg)
        /\ ElementsOf(serverAddrs) = ComponentsOf(serversArg)
        /\ ComponentsOf(clientsArg) = ComponentsOf(serversArg) =>
               ElementsOf(clientAddrs) = ElementsOf(serverAddrs)

\* "a,a,b" gave b and a, "a,b,a" gave a and b
C28_Witness ==
    /\ dpc # "start"
    /\ clientsArg = <<"a", ",", "a", ",", "b">>
    /\ clientAddrs = << <<"b">>, <<"a">> >>
    /\ serversArg = <<"a", ",", "b", ",", "a">>
    /\ serverAddrs = << <<"a">>, <<"b">> >>

\* ----------------------------------------------- properties of the emitter
\* C31: within one campaign the sequence numbers of the items placed on the
\* request channel start at 1 and are strictly increasing in emission order:
\* the k-th item placed carries k, and the items waiting in the channel are
\* in increasing order.
C31_SeqNumbersIncrease ==
    /\ [](/\ \A i, j \in 1..Len(requests) :
                 i < j => requests[i].seqNumber < requests[j].seqNumber
          /\ \A i \in 1..Len(requests) :
                 /\ requests[i].seqNumber >= 1
                 /\ requests[i].seqNumber <= Emitted
          /\ \A w \in Workers :
                 wpc[w] \in {"download", "send"} =>
                     /\ cur[w].seqNumber >= 1
                     /\ \A i \in 1..Len(requests) :
                            cur[w].seqNumber < requests[i].seqNumber)
    /\ [][Len(requests') > Len(requests) =>
              /\ requests' = Append(requests, requests'[Len(requests')])
              /\ requests'[Len(requests')].seqNumber = Emitted + 1
              /\ Emitted' = Emitted + 1]_vars

\* the first two items of a campaign wait in the channel, numbered 1 and 2
C31_Witness ==
    /\ Len(requests) = 2
    /\ requests[1].seqNumber = 1
    /\ requests[2].seqNumber = 2
    /\ Emitted = 2

\* C34: at every moment of a campaign the request channel holds at most
\* pool-size items, the response channel holds at most pool-size items, and
\* at most pool-size downloads are in flight.
C34_ChannelsBounded ==
    LET poolSize == IF cpc = "process" \/ numWorkers = 0 THEN 0
                    ELSE NumWorkersOf(req.Concurrency)
    IN  /\ Len(requests) <= poolSize
        /\ Len(responses) <= poolSize
        /\ Cardinality({w \in Workers : wpc[w] = "download"}) <= poolSize
        /\ Cardinality({w \in Workers : wpc[w] \notin {"idle", "done"}}) <= poolSize

\* a pool of one worker: one download in flight and the request channel full
C34_Witness ==
    /\ numWorkers = 1
    /\ Len(requests) = 1
    /\ wpc[1] = "download"
    /\ wpc[2] = "idle"

\* C38: when the construction of a transport fails for a server address of
\* the request, clientProcessLoadRequest returns its error before a
\* collector, a worker or the emitter has been started, and /load answers 500.
C38_NewClientFailure ==
    (loadMethod = "POST" /\ loadBody = "json" /\ req.ServerAddrs > 0
     /\ req.Duration >= 0 /\ ~configOK) =>
        /\ kpc = "idle"
        /\ epc = "idle"
        /\ \A w \in Workers : wpc[w] = "idle"
        /\ wg = 0
        /\ fsclients = 0
        /\ requests = <<>> /\ responses = <<>>
        /\ cpc # "process" => (cpc = "returned" /\ httpStatus = 500
                               /\ httpBody = NoLoadResponse)

\* a valid request for two servers was answered 500, the transports failing
C38_Witness ==
    /\ ~configOK
    /\ loadMethod = "POST" /\ loadBody = "json"
    /\ req.ServerAddrs = 2 /\ req.Duration = 1
    /\ cpc = "returned"
    /\ httpStatus = 500

\* ------------------------------------------------ properties of the reports
\* C36: every LoadReport that reaches the collector has an error or a
\* response, on every path of driverSendLoadRequest, so the collector never
\* reads the fields of a missing response when it prints a client's report.
C36_ReportComplete ==
    /\ \A r \in results : r.err # "" \/ r.hasResp
    /\ \A i \in DOMAIN tpc : tpc[i] \in {"send", "sent", "done"} =>
                                 (rep[i].err # "" \/ rep[i].hasResp)
    /\ ~(dpanic /\ ~reportsClosed)

\* ------------------------------------------- properties of the served body
\* the offset in contentsBuffer of byte i of a run of bytes
RECURSIVE BufferOffsetOf(_, _)
BufferOffsetOf(c, i) ==
    IF i < c[1].len THEN c[1].off + i ELSE BufferOffsetOf(Tail(c), i - c[1].len)
\* the offsets in a run of the first and of the last byte of each of its chunks
RECURSIVE ChunkEnds(_, _)
ChunkEnds(c, before) ==
    IF c = <<>> THEN {}
    ELSE {before, before + c[1].len - 1} \cup ChunkEnds(Tail(c), before + c[1].len)

\* C35: the body byte at offset i of a response served without error is
\* byte (i mod 1 MiB) of the payload buffer: streaming starts at offset 0 of
\* the buffer and wraps to offset 0 each time the end of the buffer is
\* reached. Within a chunk body and buffer offsets advance together, so the
\* first and the last byte of every chunk decide it for all bytes.
C35_BodyCyclesBuffer ==
    ServedWithoutError =>
        /\ \A i \in ChunkEnds(rw.body, 0) :
              BufferOffsetOf(rw.body, i) = i % bufferSize
        /\ \A k \in DOMAIN rw.body : rw.body[k].len > 0
        /\ (fpc \in {"response", "done"} /\ srv.code = 200) =>
              /\ BytesIn(rw.body) = RequestedSize
              /\ RequestedSize > 0 => BufferOffsetOf(rw.body, 0) = 0
\* two buffers and five bytes were served: the byte after the first buffer and
\* the byte after the second one are byte 0 of the buffer, the last is byte 4
C35_Witness ==
    /\ ServedWithoutError
    /\ fpc = "response"
    /\ srv.code = 200
    /\ RequestedSize = 2 * bufferSize + 5
    /\ BufferOffsetOf(rw.body, bufferSize - 1) = bufferSize - 1
    /\ BufferOffsetOf(rw.body, bufferSize) = 0
    /\ BufferOffsetOf(rw.body, 2 * bufferSize) = 0
    /\ BufferOffsetOf(rw.body, 2 * bufferSize + 4) = 4

\* =====================================================================
\* The file server serving two requests at the same time: net/http runs
\* one goroutine per connection, each calls handleGetFile and serveFile with
\* its own ResponseWriter; the calls share contentsBuffer and checksumMap,
\* which nothing writes after init.
\* =====================================================================
ServeHandlers == {1, 2}

\* requests handleGetFile accepts: an id, a size, a registered algorithm or none
ServeRequests ==
    [id : {"a", "b"}, size : {5, bufferSize + 1},
     alg : {"", "sha256", "SHA256", "sha512"}]

\* a serveFile call that has not begun: its arguments, and no locals yet
NewHandler(r) ==
    [id |-> r.id, size |-> r.size, alg |-> r.alg, hpc |-> "called", rdr |-> 0,
     remain |-> 0, hashed |-> <<>>, code |-> 0, w |-> NoRW]

ServeInit ==
    /\ req = [ServerAddrs |-> 1, Duration |-> 0, Concurrency |-> 0,
              MeanSize |-> 2 * MB, StdSize |-> 0]
    /\ configOK = TRUE
    /\ loadMethod = "POST"
    /\ loadBody = "json"
    /\ ClientInit
    /\ NoExchange
    /\ NoDriver
    /\ Untimed
    /\ NoCampaigns
    /\ handlers \in [ServeHandlers -> {NewHandler(r) : r \in ServeRequests}]
    /\ readers = [h \in ServeHandlers |-> 0]

\* rdr := bytes.NewReader(contentsBuffer): the reader of a call is a new
\* object, known here by the call that made it
NewReaderShared(h) == 1
NewReader(h) == h

\* serveFile up to its loop: the hasher, the headers, the reader at offset 0
ServeBegin(h) ==
    /\ handlers[h].hpc = "called"
    /\ LET rdr == NewReader(h)
       IN  /\ handlers' = [handlers EXCEPT
                  ![h].hpc = "serving",
                  ![h].rdr = rdr,
                  ![h].remain = handlers[h].size,
                  ![h].w = [@ EXCEPT !.declared =
                                        IF handlers[h].alg # ""
                                        THEN {"X-Content-Length", "X-Checksum-Value"}
                                        ELSE {"X-Content-Length"},
                                     !.chkAlg = handlers[h].alg]]
           /\ readers' = [readers EXCEPT ![rdr] = 0]
    /\ UNCHANGED <<envvars, cvars, chvars, evars, wvars, kvars, hvars, fvars, lvars, ivars, dvars>>

\* one pass of the loop of a call: it rewinds its reader when nothing is
\* left, then io.CopyN writes count bytes or fails having written fewer
ServePass(h) ==
    /\ handlers[h].hpc = "serving"
    /\ handlers[h].remain > 0
    /\ LET rdr == handlers[h].rdr
           pos == Seek(readers[rdr])
           count == ChunkCount(bufferSize - pos, handlers[h].remain)
       IN  \/ /\ handlers' = [handlers EXCEPT
                     ![h].w = Write(@, pos, count),
                     ![h].remain = @ - count,
                     ![h].hashed = Tee(@, handlers[h].alg, pos, count)]
              /\ readers' = [readers EXCEPT ![rdr] = pos + count]
           \/ \E sent \in {0, count - 1} :
              /\ handlers' = [handlers EXCEPT
                     ![h].w = httpError(Write(@, pos, sent), 500),
                     ![h].hashed = Tee(@, handlers[h].alg, pos, count),
                     ![h].code = 500,
                     ![h].hpc = "done"]
              /\ readers' = [readers EXCEPT ![rdr] = pos + count]
    /\ UNCHANGED <<envvars, cvars, chvars, evars, wvars, kvars, hvars, fvars, lvars, ivars, dvars>>

\* the end of a call: the trailers
ServeEnd(h) ==
    /\ handlers[h].hpc = "serving"
    /\ handlers[h].remain <= 0
    /\ handlers' = [handlers EXCEPT
           ![h].w = LET w == SetTrailer(@, "X-Content-Length", FormatInt(handlers[h].size))
                    IN  IF handlers[h].alg = "" THEN w
                        ELSE SetTrailer(w, "X-Checksum-Value",
                                        HexSum(getChecksumByName(handlers[h].alg),
                                               handlers[h].hashed)),
           ![h].code = 200,
           ![h].hpc = "done"]
    /\ UNCHANGED readers
    /\ UNCHANGED <<envvars, cvars, chvars, evars, wvars, kvars, hvars, fvars, lvars, ivars, dvars>>

ServeNext ==
    \/ \E h \in ServeHandlers : ServeBegin(h)
    \/ \E h \in ServeHandlers : ServePass(h)
    \/ \E h \in ServeHandlers : ServeEnd(h)

ServeSpec == ServeInit /\ [][ServeNext]_vars

\* ---------------------------------------- properties of concurrent serving
\* C40: within one server process the successful response to GET /file is
\* determined by size and checksum algorithm alone: two requests with the
\* same size and the same algorithm receive the same body and the same
\* checksum value, whatever their ids and however the handlers of concurrent
\* requests interleave.
C40_SameRequestSameResponse ==
    \A g, h \in DOMAIN handlers :
        (/\ handlers[g].hpc = "done" /\ handlers[g].code = 200
         /\ handlers[h].hpc = "done" /\ handlers[h].code = 200
         /\ handlers[g].size = handlers[h].size
         /\ handlers[g].alg = handlers[h].alg) =>
            /\ handlers[g].w.body = handlers[h].w.body
            /\ handlers[g].w.cval = handlers[h].w.cval
            /\ handlers[g].w.clen = handlers[h].w.clen
            /\ handlers[g].w.status = 200
            /\ BytesIn(handlers[g].w.body) = handlers[g].size
\* two requests with different ids for one buffer and one byte under SHA-256
\* were both served
C40_Witness ==
    /\ DOMAIN handlers = ServeHandlers
    /\ handlers[1].id = "a" /\ handlers[2].id = "b"
    /\ \A h \in ServeHandlers :
          /\ handlers[h].hpc = "done" /\ handlers[h].code = 200
          /\ handlers[h].size = bufferSize + 1
          /\ handlers[h].alg = "sha256"
          /\ handlers[h].w.cval = HexSum("sha256", handlers[h].w.body)
    /\ handlers[1].w.body = handlers[2].w.body
    /\ Len(handlers[1].w.body) = 2

\* ------------------------------------------- properties of the accounting
\* the DownloadResp processDownloadRequest builds from the exchange, when the
\* call is the one it makes: no checksum, SHA256 as the (unused) algorithm
CampaignDownload ==
    /\ scenario \in {"download", "foreign"}
    /\ fpc = "done"
    /\ call.chkMode = "ChecksumNone"
    /\ call.chkAlgo = SHA256
ExchangeResp ==
    DownloadRespOf([seqNumber |-> 1, server |-> 1, size |-> call.size, notAfter |-> 0],
                   report.Err)

\* C33: the size field of a DownloadResp without error equals the number of
\* body bytes the download received, so that DataSize is the total of the
\* bytes received by the successful downloads.
C33_SizeIsBytesReceived ==
    (CampaignDownload /\ ExchangeResp.err = "") =>
        ExchangeResp.size = BytesIn(rw.body)

\* =====================================================================
\* Campaigns of one worker against one server whose downloads are timed
\* =====================================================================
TimedInit ==
    /\ CampaignInit
    /\ NoExchange
    /\ NoDriver
    /\ NoServing
    /\ NoCampaigns
    /\ req.ServerAddrs = 1
    /\ req.Duration >= 0
    /\ req.Concurrency = 1
    /\ configOK
    /\ loadMethod = "POST"
    /\ loadBody = "json"
    /\ times = [n \in SeqNumbers |-> NoSpan]

TimedSpec == TimedInit /\ [][Next]_vars

\* ------------------------------------------- properties of the time window
\* the downloads the collector has counted, as a file or as an error
Counted == {n \in SeqNumbers : collCount[n] > 0}
\* the collector has built the LoadResponse
SummaryBuilt == kpc \in {"send", "done"}

\* C37 as stated: every download counted in a LoadResponse started at or
\* after the reported Start and ended at or before the reported End.
C37_Original ==
    SummaryBuilt =>
        \A n \in Counted :
            /\ times[n].start >= summary.Start
            /\ times[n].end <= summary.End

\* C37: every download counted in a LoadResponse was called after the
\* campaign began, started at or before the reported End, ended at or before
\* it, and was counted by the collector at or after the reported Start; Start
\* is the instant the collector goroutine first runs, which may come after
\* the start and even after the end of the first downloads.
C37_CountedBeforeEnd ==
    /\ kpc \in {"idle", "start"} => Counted = {}
    /\ kpc \notin {"idle", "start"} => start <= now
    /\ \A n \in Counted :
          /\ times[n].start >= 0
          /\ times[n].start <= now
          /\ times[n].end <= now
          /\ times[n].end # -1 => times[n].start <= times[n].end
    /\ SummaryBuilt =>
          /\ summary.Start = start
          /\ summary.Start <= summary.End
          /\ summary.End <= now
          /\ \A n \in Counted :
                /\ times[n].start <= summary.End
                /\ times[n].end <= summary.End
\* a counted download started and ended before the reported Start, and
\* another ended at the reported End
C37_Witness ==
    /\ SummaryBuilt
    /\ httpStatus = 200
    /\ Counted = {1, 2}
    /\ times[1].start = 0 /\ times[1].end = 0
    /\ summary.Start = 1
    /\ times[2].end = summary.End
    /\ summary.End = 2

\* =====================================================================
\* The client process running two campaigns at the same time: net/http runs
\* one goroutine per /load request, each calls clientProcessLoadRequest,
\* which makes its channels and its fileserver.Client objects and starts its
\* collector, its worker (Concurrency: 1) and its emitter.
\* =====================================================================
IsoCampaigns == {1, 2}

\* ServerAddrs of the requests: one server, two servers, one server twice
IsoAddrs == {<<"s1">>, <<"s1", "s2">>, <<"s1", "s1">>}

\* a clientProcessLoadRequest call that has not begun; 0: no channel yet
NewCampaign(a) ==
    [pc |-> "request", addrs |-> a, requests |-> 0, responses |-> 0, summary |-> 0,
     fsclients |-> <<>>, seq |-> 0, emitting |-> FALSE, working |-> FALSE,
     collecting |-> FALSE, counted |-> {}, result |-> -1]

\* make(chan ...): an open channel that holds nothing
NewChan == [buf |-> <<>>, closed |-> FALSE]
\* fileserver.NewClient: a transport that has served no address yet
NewClient == [served |-> {}]

IsoInit ==
    /\ req = [ServerAddrs |-> 1, Duration |-> 0, Concurrency |-> 1,
              MeanSize |-> 2 * MB, StdSize |-> 0]
    /\ configOK = TRUE
    /\ loadMethod = "POST"
    /\ loadBody = "json"
    /\ ClientInit
    /\ NoExchange
    /\ NoDriver
    /\ NoServing
    /\ Untimed
    /\ camps \in [IsoCampaigns -> {NewCampaign(a) : a \in IsoAddrs}]
    /\ chans = <<>>
    /\ clients = <<>>

\* clientProcessLoadRequest up to the go statements: the request and the
\* response channel, one fileserver.Client per entry of ServerAddrs, the
\* summary channel, then the collector, the worker and the emitter
IsoBegin(c) ==
    /\ camps[c].pc = "request"
    /\ LET n == Len(chans)
           m == Len(clients)
           k == Len(camps[c].addrs)
       IN  /\ chans' = chans \o <<NewChan, NewChan, NewChan>>
           /\ clients' = clients \o [i \in 1..k |-> NewClient]
           /\ camps' = [camps EXCEPT ![c] =
                  [@ EXCEPT !.pc = "run",
                            !.requests = n + 1,
                            !.responses = n + 2,
                            !.summary = n + 3,
                            !.fsclients = [i \in 1..k |-> m + i],
                            !.emitting = TRUE,
                            !.working = TRUE,
                            !.collecting = TRUE]]
    /\ UNCHANGED <<envvars, cvars, chvars, evars, wvars, kvars, hvars, fvars, lvars, dvars, svars>>

\* fsclient: fsclients[s], the transport at the index of the server drawn
TransportForFirst(fs, s) == fs[1]
TransportFor(fs, s) == fs[s]

\* replyTo: responses, the response channel the emitter was started with
ReplyToFirst(cs, c) == cs[1].responses
ReplyTo(cs, c) == cs[c].responses

\* one pass of the loop of clientEmitRequests in which the send is taken;
\* from: the campaign whose emitter made the request, kept for the record
IsoEmit(c) ==
    /\ camps[c].emitting
    /\ camps[c].seq < MaxEmit
    /\ Len(chans[camps[c].requests].buf) < NumWorkersOf(req.Concurrency)
    /\ \E s \in 1..Len(camps[c].addrs) :
          LET item == [seqNumber |-> camps[c].seq + 1,
                       server |-> camps[c].addrs[s],
                       fsclient |-> TransportFor(camps[c].fsclients, s),
                       replyTo |-> ReplyTo(camps, c),
                       from |-> c]
          IN  chans' = [chans EXCEPT ![camps[c].requests].buf = Append(@, item)]
    /\ camps' = [camps EXCEPT ![c].seq = @ + 1]
    /\ UNCHANGED clients
    /\ UNCHANGED <<envvars, cvars, chvars, evars, wvars, kvars, hvars, fvars, lvars, dvars, svars>>

\* the timeout case of the emitter's select, then close(requests)
IsoTimeout(c) ==
    /\ camps[c].emitting
    /\ chans' = [chans EXCEPT ![camps[c].requests].closed = TRUE]
    /\ camps' = [camps EXCEPT ![c].emitting = FALSE]
    /\ UNCHANGED clients
    /\ UNCHANGED <<envvars, cvars, chvars, evars, wvars, kvars, hvars, fvars, lvars, dvars, svars>>

\* one pass of the loop of clientWorker: it receives a request from the
\* channel it was started with, downloads from req.server through
\* req.fsclient and sends the response on req.replyTo (a send on a closed
\* channel panics, a send on a channel that is full or nil waits)
IsoWork(c) ==
    /\ camps[c].working
    /\ camps[c].pc = "run"
    /\ chans[camps[c].requests].buf # <<>>
    /\ LET r == Head(chans[camps[c].requests].buf)
       IN  /\ r.replyTo # 0
           /\ clients' = [clients EXCEPT ![r.fsclient].served = @ \cup {r.server}]
           /\ IF chans[r.replyTo].closed
              THEN /\ chans' = [chans EXCEPT ![camps[c].requests].buf = Tail(@)]
                   /\ camps' = [camps EXCEPT ![c].pc = "panic"]
              ELSE /\ Len(chans[r.replyTo].buf) < NumWorkersOf(req.Concurrency)
                   /\ chans' = [chans EXCEPT
                          ![camps[c].requests].buf = Tail(@),
                          ![r.replyTo].buf =
                              Append(@, [seqNumber |-> r.seqNumber, from |-> r.from])]
                   /\ UNCHANGED camps
    /\ UNCHANGED <<envvars, cvars, chvars, evars, wvars, kvars, hvars, fvars, lvars, dvars, svars>>

\* the range of the worker ends on the closed and empty request channel;
\* wg.Wait() returns and clientProcessLoadRequest closes responses
IsoWorkerExit(c) ==
    /\ camps[c].working
    /\ camps[c].pc = "run"
    /\ chans[camps[c].requests].closed
    /\ chans[camps[c].requests].buf = <<>>
    /\ chans' = [chans EXCEPT ![camps[c].responses].closed = TRUE]
    /\ camps' = [camps EXCEPT ![c].working = FALSE]
    /\ UNCHANGED clients
    /\ UNCHANGED <<envvars, cvars, chvars, evars, wvars, kvars, hvars, fvars, lvars, dvars, svars>>

\* one pass of the range of clientCollectResponses over the channel it was
\* started with; counted: the downloads it has counted, kept for the record
IsoCollect(c) ==
    /\ camps[c].collecting
    /\ camps[c].pc = "run"
    /\ chans[camps[c].responses].buf # <<>>
    /\ LET resp == Head(chans[camps[c].responses].buf)
       IN  camps' = [camps EXCEPT ![c].counted = @ \cup {<<resp.from, resp.seqNumber>>}]
    /\ chans' = [chans EXCEPT ![camps[c].responses].buf = Tail(@)]
    /\ UNCHANGED clients
    /\ UNCHANGED <<envvars, cvars, chvars, evars, wvars, kvars, hvars, fvars, lvars, dvars, svars>>

\* the range of the collector ends, its send on summary meets
\* finalResp := <-summary, then close(summary) and the return
IsoReturn(c) ==
    /\ camps[c].collecting
    /\ camps[c].pc = "run"
    /\ chans[camps[c].responses].closed
    /\ chans[camps[c].responses].buf = <<>>
    /\ chans' = [chans EXCEPT ![camps[c].summary].closed = TRUE]
    /\ camps' = [camps EXCEPT ![c].collecting = FALSE,
                              ![c].result = Cardinality(camps[c].counted),
                              ![c].pc = "done"]
    /\ UNCHANGED clients
    /\ UNCHANGED <<envvars, cvars, chvars, evars, wvars, kvars, hvars, fvars, lvars, dvars, svars>>

IsoNext ==
    \/ \E c \in IsoCampaigns : IsoBegin(c)
    \/ \E c \in IsoCampaigns : IsoEmit(c)
    \/ \E c \in IsoCampaigns : IsoTimeout(c)
    \/ \E c \in IsoCampaigns : IsoWork(c)
    \/ \E c \in IsoCampaigns : IsoWorkerExit(c)
    \/ \E c \in IsoCampaigns : IsoCollect(c)
    \/ \E c \in IsoCampaigns : IsoReturn(c)

IsoSpec == IsoInit /\ [][IsoNext]_vars

\* -------------------------------------- properties of concurrent campaigns
\* the campaigns that have made their channels and transports
Begun == {c \in DOMAIN camps : camps[c].pc # "request"}
\* the channels and the transports of a campaign
ChannelsOf(c) == {camps[c].requests, camps[c].responses, camps[c].summary}
TransportsOf(c) == {camps[c].fsclients[i] : i \in DOMAIN camps[c].fsclients}
ItemsOf(ch) == {chans[ch].buf[i] : i \in DOMAIN chans[ch].buf}
AddrsOf(c) == {camps[c].addrs[i] : i \in DOMAIN camps[c].addrs}

\* C32 as stated: a campaign constructs exactly one transport per distinct
\* server address of its LoadRequest, and all its downloads that target a
\* given address use a single transport.
C32_Original ==
    \A c \in Begun :
        /\ Cardinality(TransportsOf(c)) = Cardinality(AddrsOf(c))
        /\ \A a \in AddrsOf(c) :
              Cardinality({t \in TransportsOf(c) : a \in clients[t].served}) <= 1

\* C32: a campaign constructs one transport per entry of ServerAddrs, each
\* a different object; every DownloadReq carries the transport of the entry
\* its server was drawn from, so a transport only ever serves the address of
\* its entry; when the addresses of the request are pairwise distinct, as in
\* every request the driver sends, that is one transport per address and all
\* the downloads that target an address use it.
C32_TransportPerEntry ==
    \A c \in Begun :
        /\ Len(camps[c].fsclients) = Len(camps[c].addrs)
        /\ Cardinality(TransportsOf(c)) = Len(camps[c].addrs)
        /\ \A r \in ItemsOf(camps[c].requests) :
              \E i \in DOMAIN camps[c].addrs :
                  r.server = camps[c].addrs[i] /\ r.fsclient = camps[c].fsclients[i]
        /\ \A i \in DOMAIN camps[c].addrs :
              clients[camps[c].fsclients[i]].served \subseteq {camps[c].addrs[i]}
        /\ Cardinality(AddrsOf(c)) = Len(camps[c].addrs) =>
              \A a \in AddrsOf(c) :
                  Cardinality({t \in TransportsOf(c) : a \in clients[t].served}) <= 1
\* a campaign for the same address twice has downloaded from it through both
\* of its transports
C32_Witness ==
    /\ 1 \in Begun
    /\ camps[1].addrs = <<"s1", "s1">>
    /\ camps[1].fsclients[1] # camps[1].fsclients[2]
    /\ clients[camps[1].fsclients[1]].served = {"s1"}
    /\ clients[camps[1].fsclients[2]].served = {"s1"}

\* C39: campaigns run by concurrent /load requests are isolated: each has
\* its own request, response and summary channel, its own worker and its own
\* transports, every request on a campaign's channel was made by its emitter
\* and names its response channel and its transports, and no DownloadResp
\* made in one campaign is counted in the LoadResponse of another.
C39_CampaignsIsolated ==
    /\ \A c, d \in Begun : c # d =>
          /\ ChannelsOf(c) \cap ChannelsOf(d) = {}
          /\ TransportsOf(c) \cap TransportsOf(d) = {}
    /\ \A c \in Begun :
          /\ Cardinality(ChannelsOf(c)) = 3
          /\ camps[c].pc # "panic"
          /\ \A r \in ItemsOf(camps[c].requests) :
                /\ r.from = c
                /\ r.replyTo = camps[c].responses
                /\ r.fsclient \in TransportsOf(c)
          /\ \A resp \in ItemsOf(camps[c].responses) : resp.from = c
          /\ camps[c].counted \subseteq {<<c, n>> : n \in 1..camps[c].seq}
          /\ camps[c].pc = "done" =>
                /\ camps[c].result = Cardinality(camps[c].counted)
                /\ camps[c].result <= camps[c].seq
\* both campaigns run, each has counted its first download and has its
\* second request on its own channel
C39_Witness ==
    /\ Begun = IsoCampaigns
    /\ \A c \in IsoCampaigns :
          /\ camps[c].pc = "run"
          /\ camps[c].counted = {<<c, 1>>}
          /\ Len(chans[camps[c].requests].buf) = 1
          /\ chans[camps[c].requests].buf[1].from = c
          /\ chans[camps[c].requests].buf[1].seqNumber = 2

====
